---- MODULE Spec2Model ----
(***************************************************************************)
(* Model of the highlighting core of kakoune: the incremental match cache  *)
(* (find_matches / update_matches), the word database, the regions         *)
(* highlighter and the display buffer highlighters.                        *)
(***************************************************************************)
EXTENDS Integers, Sequences, FiniteSets, TLC

VARIABLES
    buffer,     \* the Buffer: [lines, timestamp]; a line is a sequence of bytes ending in "\n"
    modifs,     \* compute_line_modifications(buffer, <timestamp of the cache>)
    regex,      \* the Regex given to find_matches / update_matches
    matches,    \* the RegexMatchList maintained by update_matches
    hist,       \* history: what the last operation was given and did
    word_db,    \* the WordDB: [m_words, m_line_to_words, m_timestamp, asserts_ok]
    m_regions,  \* RegionsHighlighter::m_regions: sequence of [name, m_begin, m_end, m_recurse]
    cache,      \* RegionsHighlighter::Cache of the buffer: [timestamp, matches, regions]
    begin,      \* the loop variable of the resolution loop: RegionAndMatch [first, second]
    returned,   \* the RegionList update_cache_ifn returned, with how it was obtained
    display,    \* the DisplayBuffer being highlighted: a sequence of lines of atoms
    flags,      \* the HighlightFlags of the pass: "Highlight" or "MoveOnly"
    m_storage,  \* StringRegistry::m_storage: sequence of DataAndRefCount [first, second]
    m_slot_map, \* StringRegistry::m_slot_map: set of entries [key (a view), value (a slot)]
    m_free_slots, \* StringRegistry::m_free_slots: sequence of slots
    handles,    \* the InternedString views currently held: sequence of [slot, size]
    buffers,    \* the buffers by name: [lines, timestamp] each
    values,     \* Buffer::values() of each buffer: ValueId -> Value
    next_id,    \* the next id ValueId::get_free_id() hands out
    highlighters, \* the RegexHighlighter objects constructed, by name: [m_id, m_regex, m_faces]
    defined,    \* DefinedHighlighters: name -> the highlighter defined under it, or Undefined
    refs,       \* the ref highlighters created: the set of names they capture
    selections, \* context.selections(): [list (sequence of [anchor, cursor]), main_index]
    registers,  \* what the regex getter reads: the value of register / or of the option
    dynamic,    \* the DynamicRegexHighlighter: [kind, m_last_regex, m_last_face, m_highlighter]
    m_fd_watchers, \* EventManager::m_fd_watchers: the registered FDWatchers [id, m_fd]
    m_timers,   \* EventManager::m_timers: the registered Timers [id, m_date]
    m_forced_fd, \* EventManager::m_forced_fd: the fds force_signal was called for
    clock,      \* Clock::now()
    frame,      \* the locals of handle_next_events: [at, events, forced, i, now, it]
    keymaps,    \* the KeymapManagers: manager -> m_mapping
    pc          \* position of the running operation

bufVars == <<buffer, modifs>>
matchVars == <<regex, matches>>
wordVars == <<word_db>>
regionVars == <<m_regions, cache, begin, returned>>
displayVars == <<display, flags>>
registryVars == <<m_storage, m_slot_map, m_free_slots, handles>>
cacheVars == <<buffers, values, next_id, highlighters>>
refVars == <<defined, refs>>
selVars == <<selections>>
dynVars == <<registers, dynamic>>
evVars == <<m_fd_watchers, m_timers, m_forced_fd, clock, frame>>
keyVars == <<keymaps>>
tailVars == <<evVars, keyVars>>
lateVars == <<selVars, dynVars, tailVars>>
extVars == <<registryVars, cacheVars, refVars, lateVars>>
vars == <<bufVars, matchVars, wordVars, regionVars, displayVars, extVars, hist, pc>>

(* ---------------------------------------------------------------------- *)
(* Bounds                                                                  *)
(* ---------------------------------------------------------------------- *)
MaxLines == 4
MaxModifs == 2
MaxWordLines == 3
MaxTimestamp == 2
MaxRegionLines == 2
MaxRegionModifs == 1
MaxOps == 2

(* ---------------------------------------------------------------------- *)
(* Generic helpers                                                         *)
(* ---------------------------------------------------------------------- *)
Min(a, b) == IF a < b THEN a ELSE b
Max(a, b) == IF a < b THEN b ELSE a

RECURSIVE Flatten(_)
Flatten(ss) == IF ss = <<>> THEN <<>> ELSE Head(ss) \o Flatten(Tail(ss))

SeqsUpTo(S, n) == UNION {[1..k -> S] : k \in 0..n}

(* ByteCoord: <<line, column>>, ordered lexicographically *)
CoordLT(a, b) == a[1] < b[1] \/ (a[1] = b[1] /\ a[2] < b[2])
CoordLE(a, b) == ~CoordLT(b, a)

(* ---------------------------------------------------------------------- *)
(* Buffer                                                                  *)
(* ---------------------------------------------------------------------- *)
line_count(buf) == Len(buf.lines)
BufLine(buf, l) == buf.lines[l + 1]

(* LineModification::diff *)
diff(m) == m.new_line - m.old_line + m.num_added - m.num_removed

(* The modification lists compute_line_modifications can return for a      *)
(* buffer that had n lines: each modification replaces the old lines       *)
(* [old_line, old_line + num_removed] by the new lines                     *)
(* [new_line, new_line + num_added]; old ranges are disjoint and ordered,  *)
(* new_line = old_line + the sum of the previous diffs.                    *)
RECURSIVE RawModifsFrom(_, _, _)
RawModifsFrom(start, n, k) ==
    {<<>>} \cup
    (IF k = 0 THEN {}
     ELSE UNION {UNION {UNION {
            {<<[old_line |-> o, num_removed |-> r, num_added |-> a]>> \o rest :
                rest \in RawModifsFrom(o + r + 1, n, k - 1)} :
            a \in 0..(MaxLines - 1)} :
            r \in 0..(n - 1 - o)} :
            o \in start..(n - 1)})

RECURSIVE SumDiff(_, _)
SumDiff(ms, k) ==
    IF k = 0 THEN 0 ELSE SumDiff(ms, k - 1) + ms[k].num_added - ms[k].num_removed

WithNewLine(ms) ==
    [i \in 1..Len(ms) |->
        [old_line |-> ms[i].old_line,
         new_line |-> ms[i].old_line + SumDiff(ms, i - 1),
         num_removed |-> ms[i].num_removed,
         num_added |-> ms[i].num_added]]

ModifLists(n, maxModifs) ==
    {WithNewLine(ms) : ms \in RawModifsFrom(0, n, maxModifs) \ {<<>>}}

RECURSIVE SumAdded(_, _)
SumAdded(ms, k) == IF k = 0 THEN 0 ELSE SumAdded(ms, k - 1) + ms[k].num_added + 1

(* The lines of the buffer after the edit ms, the fresh lines taken in     *)
(* order from fresh.                                                       *)
RECURSIVE EditedFrom(_, _, _, _, _)
EditedFrom(old, ms, fresh, k, old_line) ==
    IF k > Len(ms)
    THEN SubSeq(old, old_line + 1, Len(old))
    ELSE SubSeq(old, old_line + 1, ms[k].old_line)
         \o SubSeq(fresh, SumAdded(ms, k - 1) + 1, SumAdded(ms, k))
         \o EditedFrom(old, ms, fresh, k + 1, ms[k].old_line + ms[k].num_removed + 1)

EditedLines(old, ms, fresh) == EditedFrom(old, ms, fresh, 1, 0)

(* ---------------------------------------------------------------------- *)
(* Regex: the patterns used here, matched the way boost::regex_iterator   *)
(* walks one line: leftmost first, non overlapping.                        *)
(*   lit c    : the byte c                                                 *)
(*   esc c    : the byte c followed by any byte but the end of line (c.)   *)
(*   ahead c  : the empty string before a byte c   ((?=c))                 *)
(*   behind c : the empty string after a byte c    (c\K)                   *)
(* ---------------------------------------------------------------------- *)
Lit(c) == [kind |-> "lit", ch |-> c]
Esc(c) == [kind |-> "esc", ch |-> c]
Ahead(c) == [kind |-> "ahead", ch |-> c]
Behind(c) == [kind |-> "behind", ch |-> c]
EmptyRegex == [kind |-> "empty", ch |-> ""]

RECURSIVE ScanLine(_, _, _)
ScanLine(l, re, i) ==
    IF i >= Len(l) THEN <<>>
    ELSE IF l[i + 1] # re.ch THEN ScanLine(l, re, i + 1)
    ELSE CASE re.kind = "lit"    -> <<<<i, i + 1>>>> \o ScanLine(l, re, i + 1)
           [] re.kind = "esc"    -> IF i + 1 < Len(l) /\ l[i + 2] # "\n"
                                    THEN <<<<i, i + 2>>>> \o ScanLine(l, re, i + 2)
                                    ELSE ScanLine(l, re, i + 1)
           [] re.kind = "ahead"  -> <<<<i, i>>>> \o ScanLine(l, re, i + 1)
           [] re.kind = "behind" -> <<<<i + 1, i + 1>>>> \o ScanLine(l, re, i + 1)
           [] OTHER              -> <<>>

(* the matches of one line, stamped: the inner loop of find_matches *)
LineMatches(buf, line, re) ==
    LET ms == ScanLine(BufLine(buf, line), re, 0)
    IN [k \in 1..Len(ms) |->
           [timestamp |-> buf.timestamp, line |-> line,
            begin |-> ms[k][1], end |-> ms[k][2]]]

begin_coord(m) == <<m.line, m.begin>>
end_coord(m) == <<m.line, m.end>>

(* find_matches: every line of the buffer, in order *)
find_matches(buf, re) ==
    Flatten([l \in 1..line_count(buf) |-> LineMatches(buf, l - 1, re)])

(* std::lower_bound(modifs, line) on old_line: 1-based index, Len+1 = end *)
LowerBoundOldLine(ms, line) ==
    LET idx == {i \in 1..Len(ms) : ms[i].old_line >= line}
    IN IF idx = {} THEN Len(ms) + 1
       ELSE CHOOSE i \in idx : \A j \in idx : i <= j

(* MovedMatch with the removed range taken one line short *)
MovedMatchShort(buf, ms, m) ==
    LET i == LowerBoundOldLine(ms, m.line)
        hit == i <= Len(ms) /\ ms[i].old_line = m.line
        hasPrev == ~hit /\ i > 1
        line2 == IF hasPrev THEN m.line + diff(ms[i - 1]) ELSE m.line
        erase == \/ hit
                 \/ (hasPrev /\ m.line < ms[i - 1].old_line + ms[i - 1].num_removed)
                 \/ line2 >= line_count(buf)
    IN [erase |-> erase,
        match |-> [timestamp |-> buf.timestamp, line |-> line2,
                   begin |-> m.begin, end |-> m.end]]

(* first loop of update_matches, for one match: whether it is erased and   *)
(* the match it becomes                                                    *)
MovedMatch(buf, ms, m) ==
    LET i == LowerBoundOldLine(ms, m.line)
        hit == i <= Len(ms) /\ ms[i].old_line = m.line
        hasPrev == ~hit /\ i > 1
        line2 == IF hasPrev THEN m.line + diff(ms[i - 1]) ELSE m.line
        erase == \/ hit
                 \/ (hasPrev /\ m.line <= ms[i - 1].old_line + ms[i - 1].num_removed)
                 \/ line2 >= line_count(buf)
    IN [erase |-> erase,
        match |-> [timestamp |-> buf.timestamp, line |-> line2,
                   begin |-> m.begin, end |-> m.end]]

RECURSIVE KeptMatches(_, _, _)
KeptMatches(buf, ms, old) ==
    IF old = <<>> THEN <<>>
    ELSE LET r == MovedMatch(buf, ms, Head(old))
         IN (IF r.erase THEN <<>> ELSE <<r.match>>) \o KeptMatches(buf, ms, Tail(old))

(* second loop of update_matches: the lines each modification touches *)
RECURSIVE RescanFrom(_, _, _, _)
RescanFrom(buf, re, line, last) ==
    IF line >= last \/ line >= line_count(buf) THEN <<>>
    ELSE LineMatches(buf, line, re) \o RescanFrom(buf, re, line + 1, last)

RescannedMatches(buf, ms, re) ==
    Flatten([k \in 1..Len(ms) |->
                RescanFrom(buf, re, ms[k].new_line, ms[k].new_line + ms[k].num_added + 1)])

(* std::inplace_merge on begin_coord *)
RECURSIVE InplaceMerge(_, _)
InplaceMerge(a, b) ==
    IF a = <<>> THEN b
    ELSE IF b = <<>> THEN a
    ELSE IF CoordLT(begin_coord(Head(b)), begin_coord(Head(a)))
         THEN <<Head(b)>> \o InplaceMerge(a, Tail(b))
         ELSE <<Head(a)>> \o InplaceMerge(Tail(a), b)

update_matches(buf, ms, old, re) ==
    InplaceMerge(KeptMatches(buf, ms, old), RescannedMatches(buf, ms, re))

(* ---------------------------------------------------------------------- *)
(* The match cache under edits                                             *)
(* ---------------------------------------------------------------------- *)
MatchLineSet == {<<"\n">>, <<"b", "a", "a", "\n">>}
MatchRegexSet == {Lit("a"), Esc("b")}

BuffersOf(lineSet, maxLines) ==
    {[lines |-> ls, timestamp |-> t] :
        ls \in UNION {[1..k -> lineSet] : k \in 1..maxLines}, t \in {0}}

(* An edit of the buffer between two cache updates: the modification list  *)
(* and the content of the lines it touches.                                *)
EditBuffer(lineSet, maxLines, maxModifs) ==
    /\ modifs = <<>>
    /\ \E ms \in ModifLists(line_count(buffer), maxModifs) :
         /\ line_count(buffer) + SumDiff(ms, Len(ms)) <= maxLines
         /\ \E fresh \in [1..SumAdded(ms, Len(ms)) -> lineSet] :
              /\ buffer' = [lines |-> EditedLines(buffer.lines, ms, fresh),
                            timestamp |-> buffer.timestamp + 1]
              /\ modifs' = ms

(* ---------------------------------------------------------------------- *)
(* WordDB                                                                  *)
(* ---------------------------------------------------------------------- *)
WordChars == {"a", "b", "f", "o", "r"}
is_word(c) == c \in WordChars

(* get_words: a word is pushed when a non-word byte follows it *)
RECURSIVE GetWordsFrom(_, _, _, _)
GetWordsFrom(content, i, word_start, in_word) ==
    IF i > Len(content) THEN <<>>
    ELSE LET word == is_word(content[i])
         IN IF ~in_word /\ word THEN GetWordsFrom(content, i + 1, i, TRUE)
            ELSE IF in_word /\ ~word
                 THEN <<SubSeq(content, word_start, i - 1)>>
                      \o GetWordsFrom(content, i + 1, word_start, FALSE)
                 ELSE GetWordsFrom(content, i + 1, word_start, in_word)

get_words(content) == GetWordsFrom(content, 1, 1, FALSE)

(* WordList: std::map word -> count, as a function on the words present *)
EmptyWordList == [w \in {} |-> 0]

RECURSIVE add_words(_, _)
add_words(wl, words) ==
    IF words = <<>> THEN wl
    ELSE LET w == Head(words)
             n == IF w \in DOMAIN wl THEN wl[w] + 1 ELSE 1
         IN add_words([x \in DOMAIN wl \cup {w} |-> IF x = w THEN n ELSE wl[x]],
                      Tail(words))

(* remove_words without the erase of a count that reaches 0 *)
RECURSIVE remove_words_keep(_, _)
remove_words_keep(wl, words) ==
    IF words = <<>> THEN wl
    ELSE LET w == Head(words)
         IN IF w \notin DOMAIN wl THEN remove_words_keep(wl, Tail(words))
            ELSE remove_words_keep([wl EXCEPT ![w] = wl[w] - 1], Tail(words))

RECURSIVE remove_words(_, _)
remove_words(wl, words) ==
    IF words = <<>> THEN wl
    ELSE LET w == Head(words)
         IN IF w \notin DOMAIN wl THEN remove_words(wl, Tail(words))
            ELSE IF wl[w] - 1 = 0
                 THEN remove_words([x \in DOMAIN wl \ {w} |-> wl[x]], Tail(words))
                 ELSE remove_words([wl EXCEPT ![w] = wl[w] - 1], Tail(words))

(* kak_assert(it != wl.end() and it->second > 0) over a whole word list *)
RECURSIVE remove_asserts(_, _)
remove_asserts(wl, words) ==
    IF words = <<>> THEN TRUE
    ELSE /\ Head(words) \in DOMAIN wl
         /\ wl[Head(words)] > 0
         /\ remove_asserts(remove_words(wl, <<Head(words)>>), Tail(words))

(* WordDB::WordDB *)
RECURSIVE ConstructFrom(_, _, _)
ConstructFrom(buf, line, db) ==
    IF line >= line_count(buf) THEN db
    ELSE LET ws == get_words(BufLine(buf, line))
         IN ConstructFrom(buf, line + 1,
                [db EXCEPT !.m_line_to_words = Append(@, ws),
                           !.m_words = add_words(@, ws)])

NewWordDB(buf) ==
    ConstructFrom(buf, 0, [m_words |-> EmptyWordList, m_line_to_words |-> <<>>,
                           m_timestamp |-> buf.timestamp, asserts_ok |-> TRUE])

(* the removal loop of update_db: old lines old_line .. last *)
RECURSIVE RemoveLines(_, _, _, _)
RemoveLines(st, lines, old_line, last) ==
    IF old_line > last THEN st
    ELSE IF old_line >= Len(lines)
         THEN [st EXCEPT !.ok = FALSE, !.old_line = last + 1]
         ELSE RemoveLines([st EXCEPT !.ok = @ /\ remove_asserts(st.words, lines[old_line + 1]),
                                     !.words = remove_words(@, lines[old_line + 1]),
                                     !.old_line = old_line + 1],
                          lines, old_line + 1, last)

(* the mutation of the scan loop: the line new_line + num_added is not read *)
RECURSIVE AddLinesShort(_, _, _, _)
AddLinesShort(st, buf, m, l) ==
    IF l >= m.num_added \/ m.new_line + l >= line_count(buf) THEN st
    ELSE LET ws == get_words(BufLine(buf, m.new_line + l))
         IN AddLinesShort([st EXCEPT !.new_lines = Append(@, ws),
                                     !.words = add_words(@, ws)],
                          buf, m, l + 1)

(* the scan loop of update_db: new lines new_line + l, l = 0 .. num_added *)
RECURSIVE AddLines(_, _, _, _)
AddLines(st, buf, m, l) ==
    IF l > m.num_added \/ m.new_line + l >= line_count(buf) THEN st
    ELSE LET ws == get_words(BufLine(buf, m.new_line + l))
         IN AddLines([st EXCEPT !.new_lines = Append(@, ws),
                                !.words = add_words(@, ws)],
                     buf, m, l + 1)

(* the body of the loop over the modifications *)
UpdateOneModif(st, lines, buf, m) ==
    LET copied == [st EXCEPT
                     !.ok = /\ @
                            /\ 0 <= m.new_line /\ m.new_line < line_count(buf)
                            /\ st.old_line <= m.old_line
                            /\ m.old_line <= Len(lines),
                     !.new_lines = @ \o SubSeq(lines, st.old_line + 1, Min(m.old_line, Len(lines))),
                     !.old_line = Max(st.old_line, m.old_line)]
        checked == [copied EXCEPT !.ok = @ /\ Len(copied.new_lines) = m.new_line]
        removed == RemoveLines(checked, lines, checked.old_line, m.old_line + m.num_removed)
    IN AddLines(removed, buf, m, 0)

RECURSIVE UpdateLoop(_, _, _, _, _)
UpdateLoop(st, lines, buf, ms, k) ==
    IF k > Len(ms) THEN st
    ELSE UpdateLoop(UpdateOneModif(st, lines, buf, ms[k]), lines, buf, ms, k + 1)

(* WordDB::update_db *)
update_db(db, buf, ms) ==
    IF ms = <<>> THEN [db EXCEPT !.m_timestamp = buf.timestamp]
    ELSE LET st == UpdateLoop([new_lines |-> <<>>, words |-> db.m_words,
                               old_line |-> 0, ok |-> TRUE],
                              db.m_line_to_words, buf, ms, 1)
         IN [m_words |-> st.words,
             m_line_to_words |-> st.new_lines
                                 \o SubSeq(db.m_line_to_words, st.old_line + 1,
                                           Len(db.m_line_to_words)),
             m_timestamp |-> buf.timestamp,
             asserts_ok |-> db.asserts_ok /\ st.ok /\ st.old_line <= Len(db.m_line_to_words)]

(* ---------------------------------------------------------------------- *)
(* Regions highlighter                                                     *)
(* ---------------------------------------------------------------------- *)
(* RegionDesc::find_matches *)
RegionFindMatches(buf, d) ==
    [begin_matches |-> find_matches(buf, d.m_begin),
     end_matches |-> find_matches(buf, d.m_end),
     recurse_matches |-> IF d.m_recurse # EmptyRegex
                         THEN find_matches(buf, d.m_recurse) ELSE <<>>]

(* RegionDesc::update_matches *)
RegionUpdateMatches(buf, ms, m, d) ==
    [begin_matches |-> update_matches(buf, ms, m.begin_matches, d.m_begin),
     end_matches |-> update_matches(buf, ms, m.end_matches, d.m_end),
     recurse_matches |-> IF d.m_recurse # EmptyRegex
                         THEN update_matches(buf, ms, m.recurse_matches, d.m_recurse)
                         ELSE m.recurse_matches]

(* std::lower_bound(from, end, pos, compare_to_begin): 1-based, Len+1 = end *)
LowerBoundBegin(list, from, pos) ==
    LET idx == {i \in from..Len(list) : ~CoordLT(begin_coord(list[i]), pos)}
    IN IF idx = {} THEN Len(list) + 1
       ELSE CHOOSE i \in idx : \A j \in idx : i <= j

(* the mutation of find_next_begin: the first begin match, whatever pos *)
MatchesFindFirstBegin(m, pos) == LowerBoundBegin(m.begin_matches, 1, <<-1, 0>>)

(* RegionMatches::find_next_begin *)
MatchesFindNextBegin(m, pos) == LowerBoundBegin(m.begin_matches, 1, pos)

(* the loop "while (rec_it != end and rec_it->end_coord() < end_it->begin_coord())" *)
RECURSIVE SkipRecurse(_, _, _)
SkipRecurse(list, i, limit) ==
    IF i <= Len(list) /\ CoordLT(end_coord(list[i]), limit)
    THEN SkipRecurse(list, i + 1, limit)
    ELSE i

(* RegionMatches::find_matching_end: the end iterator, with the number of  *)
(* end matches passed over before it                                       *)
RECURSIVE MatchingEndLoop(_, _)
MatchingEndLoop(m, st) ==
    LET end_it == LowerBoundBegin(m.end_matches, st.end_it, st.beg_pos)
        rec0 == LowerBoundBegin(m.recurse_matches, st.rec_it, st.beg_pos)
    IN IF end_it > Len(m.end_matches)
       THEN [end_it |-> end_it, consumed |-> st.consumed]
       ELSE LET rec_it == SkipRecurse(m.recurse_matches, rec0,
                                      begin_coord(m.end_matches[end_it]))
                level == st.recurse_level + (rec_it - rec0)
            IN IF level = 0
               THEN [end_it |-> end_it, consumed |-> st.consumed]
               ELSE MatchingEndLoop(m, [end_it |-> end_it, rec_it |-> rec_it,
                                        recurse_level |-> level - 1,
                                        beg_pos |-> end_coord(m.end_matches[end_it]),
                                        consumed |-> st.consumed + 1])

find_matching_end(m, beg_pos) ==
    MatchingEndLoop(m, [end_it |-> 1, rec_it |-> 1, recurse_level |-> 0,
                        beg_pos |-> beg_pos, consumed |-> 0])

(* the mutation of the comparison: a begin at the same coordinate wins *)
CloserBeginOrEqual(it_coord, res_coord) == CoordLE(it_coord, res_coord)

(* it->begin_coord() < res.second->begin_coord() *)
CloserBegin(it_coord, res_coord) == CoordLT(it_coord, res_coord)

(* RegionsHighlighter::find_next_begin: the begin closest to pos *)
RECURSIVE FindNextBeginFrom(_, _, _, _)
FindNextBeginFrom(c, pos, i, res) ==
    IF i > Len(c.matches) THEN res
    ELSE LET it == MatchesFindNextBegin(c.matches[i], pos)
             resEnd == res.second > Len(c.matches[res.first].begin_matches)
             better == /\ it <= Len(c.matches[i].begin_matches)
                       /\ \/ resEnd
                          \/ CloserBegin(
                                 begin_coord(c.matches[i].begin_matches[it]),
                                 begin_coord(c.matches[res.first].begin_matches[res.second]))
         IN FindNextBeginFrom(c, pos, i + 1,
                              IF better THEN [first |-> i, second |-> it] ELSE res)

find_next_begin(c, pos) ==
    FindNextBeginFrom(c, pos, 2,
                      [first |-> 1, second |-> MatchesFindNextBegin(c.matches[1], pos)])

(* RegionAndMatch{ 0, cache.matches[0].begin_matches.end() } *)
EndSentinel(c) == [first |-> 1, second |-> Len(c.matches[1].begin_matches) + 1]

(* Buffer::end_coord *)
buffer_end_coord(buf) == <<line_count(buf) - 1, Len(BufLine(buf, line_count(buf) - 1))>>

(* Cache{}: what BufferSideCache::get attaches on the first access *)
NewCache == [timestamp |-> 0, matches |-> <<>>, regions |-> <<>>]

(* the matches of every region after the rebuild or the incremental update *)
CacheMatches(c, buf, ms, defs) ==
    IF c.timestamp = 0
    THEN [i \in 1..Len(defs) |-> RegionFindMatches(buf, defs[i])]
    ELSE [i \in 1..Len(defs) |-> RegionUpdateMatches(buf, ms, c.matches[i], defs[i])]

(* where the next begin is searched from: end_coord, one column further   *)
(* when the begin and end matches are both empty at the same coordinate    *)
NextSearchPosNoBump(beg_it, end_it) == end_coord(end_it)

NextSearchPos(beg_it, end_it) ==
    IF end_coord(end_it) = begin_coord(beg_it)
    THEN <<end_it.line, end_it.end + 1>>
    ELSE end_coord(end_it)

(* the mutation of the loop exit: the loop goes on after an unclosed begin *)
LoopGoesOn(found) == FALSE

(* "if (end_it == matches.end_matches.end()) { ...; break; }" *)
LoopBreaks(found) == ~found

(* one turn of the resolution loop, begin # end: the region pushed, whether *)
(* the loop breaks, and the position the next begin is searched from       *)
ResolveBody(c, buf, defs, b) ==
    LET m == c.matches[b.first]
        beg_it == m.begin_matches[b.second]
        r == find_matching_end(m, end_coord(beg_it))
        found == r.end_it <= Len(m.end_matches)
        end_it == m.end_matches[r.end_it]
        empty == found /\ end_coord(end_it) = begin_coord(beg_it)
    IN [region |-> [begin |-> begin_coord(beg_it),
                    end |-> IF found THEN end_coord(end_it) ELSE buffer_end_coord(buf),
                    group |-> defs[b.first].name],
        break |-> LoopBreaks(found),
        empty |-> empty,
        asserts_ok |-> empty => (begin_coord(beg_it) = end_coord(beg_it)
                                 /\ begin_coord(end_it) = end_coord(end_it)),
        call |-> [beg_pos |-> end_coord(beg_it), found |-> found,
                  end_it |-> r.end_it, consumed |-> r.consumed],
        pos |-> IF found THEN NextSearchPos(beg_it, end_it) ELSE buffer_end_coord(buf)]

(* ---------------------------------------------------------------------- *)
(* Display atoms, lines and buffers                                        *)
(* ---------------------------------------------------------------------- *)
INT_MAX == 2147483647
INT_MIN == -INT_MAX - 1

(* Face{}: default colours *)
DefaultFace == [fg |-> "default", bg |-> "default"]

(* DisplayAtom(buffer, begin, end) *)
BufferAtom(b, e) ==
    [type |-> "BufferRange", begin |-> b, end |-> e, text |-> <<>>, face |-> DefaultFace]

(* DisplayAtom(str, face) *)
TextAtom(str, face) ==
    [type |-> "Text", begin |-> <<0, 0>>, end |-> <<0, 0>>, text |-> str, face |-> face]

has_buffer_range(a) == a.type \in {"BufferRange", "ReplacedBufferRange"}

(* DisplayAtom::replace *)
replace(a, str) == [a EXCEPT !.type = "ReplacedBufferRange", !.text = str]

CoordMin(a, b) == IF CoordLT(b, a) THEN b ELSE a
CoordMax(a, b) == IF CoordLT(a, b) THEN b ELSE a

(* DisplayLine::compute_range: the cached range of a line, recomputed by   *)
(* every operation on the line                                             *)
RECURSIVE RangeOfAtoms(_, _, _)
RangeOfAtoms(atoms, i, r) ==
    IF i > Len(atoms) THEN r
    ELSE RangeOfAtoms(atoms, i + 1,
                      IF has_buffer_range(atoms[i])
                      THEN <<CoordMin(r[1], atoms[i].begin), CoordMax(r[2], atoms[i].end)>>
                      ELSE r)

line_range(atoms) == RangeOfAtoms(atoms, 1, <<(<<INT_MAX, INT_MAX>>), (<<INT_MIN, INT_MIN>>)>>)

(* DisplayBuffer::compute_range *)
RECURSIVE RangeOfLines(_, _, _)
RangeOfLines(lines, k, r) ==
    IF k > Len(lines) THEN r
    ELSE RangeOfLines(lines, k + 1,
                      <<CoordMin(r[1], line_range(lines[k])[1]),
                        CoordMax(r[2], line_range(lines[k])[2])>>)

display_range(lines) == RangeOfLines(lines, 1, <<(<<INT_MAX, INT_MAX>>), (<<INT_MIN, INT_MIN>>)>>)

(* DisplayLine::split: atom i becomes [begin, pos) and [pos, end), same face *)
split(atoms, i, pos) ==
    SubSeq(atoms, 1, i - 1)
        \o <<[atoms[i] EXCEPT !.end = pos], [atoms[i] EXCEPT !.begin = pos]>>
        \o SubSeq(atoms, i + 1, Len(atoms))

(* DisplayLine::insert of a run of atoms before position i *)
insert(atoms, i, run) == SubSeq(atoms, 1, i - 1) \o run \o SubSeq(atoms, i, Len(atoms))

(* DisplayLine::erase of the atoms b .. e-1 *)
erase(atoms, b, e) == SubSeq(atoms, 1, b - 1) \o SubSeq(atoms, e, Len(atoms))

(* DisplayLine::optimize: adjacent atoms of one variant with equal faces   *)
(* and contiguous buffer ranges are merged                                 *)
RECURSIVE optimize(_)
optimize(atoms) ==
    IF Len(atoms) < 2 THEN atoms
    ELSE LET a == atoms[1]
             n == atoms[2]
         IN IF /\ a.face = n.face /\ a.type = n.type /\ has_buffer_range(a)
               /\ n.begin = a.end
            THEN optimize(<<[a EXCEPT !.end = n.end, !.text = a.text \o n.text]>>
                          \o SubSeq(atoms, 3, Len(atoms)))
            ELSE <<a>> \o optimize(Tail(atoms))

(* the display buffer the window builds: one atom per visible line *)
WindowDisplay(first, last) == [k \in 1..(last - first + 1) |->
                                  <<BufferAtom(<<first + k - 1, 0>>, <<first + k, 0>>)>>]

(* buffer iteration: the coordinate after c, and the characters of a range *)
NextCoord(buf, c) ==
    IF c[2] + 1 < Len(BufLine(buf, c[1])) THEN <<c[1], c[2] + 1>> ELSE <<c[1] + 1, 0>>

CharAt(buf, c) == BufLine(buf, c[1])[c[2] + 1]

CoordsIn(buf, b, e) ==
    {x \in UNION {{<<l, c>> : c \in 0..(Len(BufLine(buf, l)) - 1)} :
                      l \in 0..(line_count(buf) - 1)} :
        CoordLE(b, x) /\ CoordLT(x, e)}

(* the first coordinate of [b, e) whose character is in chars, or e *)
FirstCharIn(buf, b, e, chars) ==
    LET hits == {x \in CoordsIn(buf, b, e) : CharAt(buf, x) \in chars}
    IN IF hits = {} THEN e ELSE CHOOSE x \in hits : \A y \in hits : CoordLE(x, y)

(* get_column: the display column of a coordinate, tabs expanded *)
RECURSIVE ColumnFrom(_, _, _, _, _)
ColumnFrom(line, i, col, tabstop, upto) ==
    IF i > Len(line) \/ i - 1 >= upto THEN col
    ELSE ColumnFrom(line, i + 1,
                    IF line[i] = "\t" THEN ((col \div tabstop) + 1) * tabstop ELSE col + 1,
                    tabstop, upto)

get_column(buf, tabstop, c) == ColumnFrom(BufLine(buf, c[1]), 1, 0, tabstop, c[2])

(* String(c, n) *)
Repeat(c, n) == [k \in 1..n |-> c]

(* ---------------------------------------------------------------------- *)
(* highlight_range and the face highlighters                               *)
(* ---------------------------------------------------------------------- *)
apply_face_toggle(face, a) ==
    [a EXCEPT !.face = [fg |-> IF face.fg # "default" /\ a.face.fg # face.fg
                               THEN face.fg ELSE "default",
                        bg |-> IF face.bg # "default" THEN face.bg ELSE a.face.bg]]

apply_face(face, a) ==
    [a EXCEPT !.face = [fg |-> IF face.fg # "default" THEN face.fg ELSE a.face.fg,
                        bg |-> IF face.bg # "default" THEN face.bg ELSE a.face.bg]]

(* the test before the split at begin *)
SplitsAtBeginAlways(a, rbegin) == a.type # "ReplacedBufferRange"

SplitsAtBegin(a, rbegin) == a.type # "ReplacedBufferRange" /\ CoordLT(a.begin, rbegin)

(* the loop over the atoms of one line *)
(* the functions highlight_range is given: apply_face(face), and one that  *)
(* leaves a mark in the atom at every call                                 *)
FaceFunctor(face) == [kind |-> "apply_face", face |-> face]

Tally == [kind |-> "tally"]

(* the mutation of the call: func runs twice on the atom *)
CallTwice(func, a) ==
    IF func.kind = "tally" THEN [a EXCEPT !.text = @ \o <<"*", "*">>]
    ELSE apply_face(func.face, a)

(* the call of func on the atom *)
Call(func, a) ==
    IF func.kind = "tally" THEN [a EXCEPT !.text = Append(@, "*")]
    ELSE apply_face(func.face, a)

RECURSIVE HighlightAtoms(_, _, _, _, _, _)
HighlightAtoms(atoms, i, rbegin, rend, skip_replaced, func) ==
    IF i > Len(atoms) THEN atoms
    ELSE LET a == atoms[i]
             is_replaced == a.type = "ReplacedBufferRange"
         IN IF ~has_buffer_range(a) \/ (skip_replaced /\ is_replaced)
            THEN HighlightAtoms(atoms, i + 1, rbegin, rend, skip_replaced, func)
            ELSE IF CoordLE(rend, a.begin) \/ CoordLE(a.end, rbegin)
            THEN HighlightAtoms(atoms, i + 1, rbegin, rend, skip_replaced, func)
            ELSE LET sb == SplitsAtBegin(a, rbegin)
                     atoms1 == IF sb THEN split(atoms, i, rbegin) ELSE atoms
                     i1 == IF sb THEN i + 1 ELSE i
                 IN IF ~is_replaced /\ CoordLT(rend, atoms1[i1].end)
                    THEN LET atoms2 == split(atoms1, i1, rend)
                         IN HighlightAtoms([atoms2 EXCEPT ![i1] = Call(func, @)],
                                           i1 + 2, rbegin, rend, skip_replaced, func)
                    ELSE HighlightAtoms([atoms1 EXCEPT ![i1] = Call(func, @)],
                                        i1 + 1, rbegin, rend, skip_replaced, func)

highlight_range(lines, rbegin, rend, skip_replaced, func) ==
    LET range == display_range(lines)
    IN IF rbegin = rend \/ CoordLE(rend, range[1]) \/ CoordLE(range[2], rbegin)
       THEN lines
       ELSE [k \in 1..Len(lines) |->
                IF \/ CoordLE(line_range(lines[k])[2], rbegin)
                   \/ CoordLT(rend, line_range(lines[k])[1])
                THEN lines[k]
                ELSE HighlightAtoms(lines[k], 1, rbegin, rend, skip_replaced, func)]

(* the fill highlighter *)
fill(lines, face) ==
    highlight_range(lines, display_range(lines)[1], display_range(lines)[2], TRUE,
                    FaceFunctor(face))

(* the line_option highlighter, line being the value of the option *)
highlight_line_option(lines, line, face) ==
    highlight_range(lines, <<line - 1, 0>>, <<line, 0>>, FALSE, FaceFunctor(face))

(* ---------------------------------------------------------------------- *)
(* The highlighters that replace or insert atoms                           *)
(* ---------------------------------------------------------------------- *)
(* the value of the tabstop option *)
tabstop == 4

(* the mutation of the padding: a full tabstop whatever the column *)
TabPaddingFull(buf, it) == tabstop

(* count = tabstop - (column % tabstop) *)
TabPadding(buf, it) == tabstop - (get_column(buf, tabstop, it) % tabstop)

RECURSIVE ExpandTabsAtoms(_, _, _)
ExpandTabsAtoms(atoms, i, buf) ==
    IF i > Len(atoms) THEN atoms
    ELSE IF atoms[i].type # "BufferRange" THEN ExpandTabsAtoms(atoms, i + 1, buf)
    ELSE LET a == atoms[i]
             it == FirstCharIn(buf, a.begin, a.end, {"\t"})
         IN IF it = a.end THEN ExpandTabsAtoms(atoms, i + 1, buf)
            ELSE LET s1 == it # a.begin
                     atoms1 == IF s1 THEN split(atoms, i, it) ELSE atoms
                     i1 == IF s1 THEN i + 1 ELSE i
                     atoms2 == IF NextCoord(buf, it) # a.end
                               THEN split(atoms1, i1, NextCoord(buf, it)) ELSE atoms1
                     count == TabPadding(buf, it)
                 IN ExpandTabsAtoms([atoms2 EXCEPT ![i1] = replace(@, Repeat(" ", count))],
                                    i1 + 1, buf)

expand_tabulations(lines, buf) == [k \in 1..Len(lines) |-> ExpandTabsAtoms(lines[k], 1, buf)]

(* the text shown for a whitespace character: "->", "." and "~" stand for *)
(* the arrow, the middle dot and the not sign                              *)
WhitespaceText(buf, it) ==
    IF CharAt(buf, it) = "\t"
    THEN <<"->">> \o Repeat(" ", tabstop - (get_column(buf, tabstop, it) % tabstop) - 1)
    ELSE IF CharAt(buf, it) = " " THEN <<".">> ELSE <<"~">>

RECURSIVE ShowWhitespacesAtoms(_, _, _)
ShowWhitespacesAtoms(atoms, i, buf) ==
    IF i > Len(atoms) THEN atoms
    ELSE IF atoms[i].type # "BufferRange" THEN ShowWhitespacesAtoms(atoms, i + 1, buf)
    ELSE LET a == atoms[i]
             it == FirstCharIn(buf, a.begin, a.end, {"\t", " ", "\n"})
         IN IF it = a.end THEN ShowWhitespacesAtoms(atoms, i + 1, buf)
            ELSE LET s1 == it # a.begin
                     atoms1 == IF s1 THEN split(atoms, i, it) ELSE atoms
                     i1 == IF s1 THEN i + 1 ELSE i
                     atoms2 == IF NextCoord(buf, it) # a.end
                               THEN split(atoms1, i1, NextCoord(buf, it)) ELSE atoms1
                 IN ShowWhitespacesAtoms(
                        [atoms2 EXCEPT ![i1] = replace(@, WhitespaceText(buf, it))],
                        i1 + 1, buf)

show_whitespaces(lines, buf) ==
    [k \in 1..Len(lines) |-> ShowWhitespacesAtoms(lines[k], 1, buf)]

(* the characters iswprint rejects, newline apart: the tab and "u", which  *)
(* stands for the control character U+1                                    *)
Unprintable == {"\t", "u", "U+85"}

(* a codepoint of two bytes in the buffer: U+0085, encoded C2 85 *)
LeadByte == "C2"
ContByte == "85"

(* utf8::next(it, end): the start of the next codepoint, at most end *)
utf8_next(buf, it, end) ==
    LET n1 == NextCoord(buf, it)
    IN IF CharAt(buf, it) = LeadByte /\ CoordLT(n1, end) THEN NextCoord(buf, n1) ELSE n1

(* utf8::codepoint<InvalidPolicy::Pass>(it, end): a byte that starts no    *)
(* complete sequence is passed as its own value                            *)
utf8_codepoint(buf, it, end) ==
    LET n1 == NextCoord(buf, it)
    IN IF CharAt(buf, it) = LeadByte /\ CoordLT(n1, end) /\ CharAt(buf, n1) = ContByte
       THEN "U+85"
       ELSE IF CharAt(buf, it) = ContByte THEN "U+85" ELSE CharAt(buf, it)

UnprintableText(c) ==
    CASE c = "\t" -> <<"U", "+", "9">>
      [] c = "U+85" -> <<"U", "+", "8", "5">>
      [] OTHER -> <<"U", "+", "1">>

UnprintableFace == [fg |-> "red", bg |-> "black"]

(* the codepoint loop over an atom: the first codepoint that is not '\n'   *)
(* and not printable, or end                                               *)
RECURSIVE FirstUnprintable(_, _, _)
FirstUnprintable(buf, it, end) ==
    IF ~CoordLT(it, end) THEN end
    ELSE IF utf8_codepoint(buf, it, end) \in Unprintable THEN it
    ELSE FirstUnprintable(buf, utf8_next(buf, it, end), end)

RECURSIVE ExpandUnprintableAtoms(_, _, _)
ExpandUnprintableAtoms(atoms, i, buf) ==
    IF i > Len(atoms) THEN atoms
    ELSE IF atoms[i].type # "BufferRange" THEN ExpandUnprintableAtoms(atoms, i + 1, buf)
    ELSE LET a == atoms[i]
             it == FirstUnprintable(buf, a.begin, a.end)
         IN IF it = a.end THEN ExpandUnprintableAtoms(atoms, i + 1, buf)
            ELSE LET next == utf8_next(buf, it, a.end)
                     s1 == it # a.begin
                     atoms1 == IF s1 THEN split(atoms, i, it) ELSE atoms
                     i1 == IF s1 THEN i + 1 ELSE i
                     atoms2 == IF CoordLT(next, atoms1[i1].end)
                               THEN split(atoms1, i1, next) ELSE atoms1
                 IN ExpandUnprintableAtoms(
                        [atoms2 EXCEPT ![i1] =
                            [replace(@, UnprintableText(utf8_codepoint(buf, it, a.end)))
                                EXCEPT !.face = UnprintableFace]],
                        i1 + 1, buf)

expand_unprintable(lines, buf) ==
    [k \in 1..Len(lines) |-> ExpandUnprintableAtoms(lines[k], 1, buf)]

(* the mutation of the digit count: one digit less at the powers of ten *)
RECURSIVE DigitCountCeil(_)
DigitCountCeil(c) == IF c > 1 THEN 1 + DigitCountCeil((c + 9) \div 10) ELSE 0

(* "for (c = last_line; c > 0; c /= 10) ++digit_count" *)
RECURSIVE DigitCount(_)
DigitCount(c) == IF c > 0 THEN 1 + DigitCount(c \div 10) ELSE 0

RECURSIVE Digits(_)
Digits(n) == IF n < 10 THEN <<ToString(n)>> ELSE Digits(n \div 10) \o <<ToString(n % 10)>>

(* the three bytes of the bar that ends the format string *)
BarBytes == <<"E2", "94", "82">>

(* char buffer[10] *)
SnprintfSize == 10

(* snprintf(buffer, 10, "%<digit_count>d" followed by the bar, n): the     *)
(* number right-aligned in digit_count columns, then the bar, cut to what  *)
(* the buffer holds before the terminating 0                               *)
FormatLineNumber(digit_count, n) ==
    LET full == Repeat(" ", Max(0, digit_count - Len(Digits(n)))) \o Digits(n) \o BarBytes
    IN SubSeq(full, 1, Min(Len(full), SnprintfSize - 1))

LineNumbersFace == [fg |-> "LineNumbers", bg |-> "default"]

(* the atom put in front of the display line of buffer line `line`, in a   *)
(* buffer of last_line lines                                               *)
LineNumberAtom(last_line, line) ==
    TextAtom(FormatLineNumber(DigitCount(last_line), line + 1), LineNumbersFace)

show_line_numbers(lines, buf) ==
    [k \in 1..Len(lines) |->
        insert(lines[k], 1, <<LineNumberAtom(line_count(buf), line_range(lines[k])[1][1])>>)]

(* the flag_lines highlighter: lines_opt is the list of LineAndFlag *)
RECURSIVE FlagWidth(_)
FlagWidth(lines_opt) ==
    IF lines_opt = <<>> THEN 0 ELSE Max(Len(Head(lines_opt).flag), FlagWidth(Tail(lines_opt)))

FlagAtom(lines_opt, bg, line_num) ==
    LET found == {j \in 1..Len(lines_opt) : lines_opt[j].line = line_num}
        it == CHOOSE j \in found : \A j2 \in found : j <= j2
        width == FlagWidth(lines_opt)
        content == IF found # {} THEN lines_opt[it].flag ELSE Repeat(" ", width)
    IN TextAtom(content \o Repeat(" ", width - Len(content)),
                [fg |-> IF found # {} THEN lines_opt[it].color ELSE "default", bg |-> bg])

flag_lines(lines, lines_opt, bg) ==
    [k \in 1..Len(lines) |->
        insert(lines[k], 1, <<FlagAtom(lines_opt, bg, line_range(lines[k])[1][1] + 1)>>)]

(* ---------------------------------------------------------------------- *)
(* apply_highlighter                                                       *)
(* ---------------------------------------------------------------------- *)
(* a call line.split(atom_it, pos), kept to state what split is given *)
SplitCall(a, pos) == [atom |-> a, pos |-> pos]

(* the loop over the atoms of a line that [rbegin, rend) covers in part;   *)
(* beg_idx and end_idx count from 0 as in the code                         *)
RECURSIVE CarveAtoms(_, _, _, _, _, _, _)
CarveAtoms(atoms, i, rbegin, rend, beg_idx, end_idx, calls) ==
    IF i > Len(atoms)
    THEN [atoms |-> atoms, beg_idx |-> beg_idx, end_idx |-> end_idx, calls |-> calls]
    ELSE LET a == atoms[i]
         IN IF ~has_buffer_range(a) \/ CoordLE(rend, a.begin) \/ CoordLE(a.end, rbegin)
            THEN CarveAtoms(atoms, i + 1, rbegin, rend, beg_idx, end_idx, calls)
            ELSE LET is_replaced == a.type = "ReplacedBufferRange"
                     atBegin == CoordLE(a.begin, rbegin)
                     splitB == atBegin /\ ~(is_replaced \/ a.begin = rbegin)
                     atoms1 == IF splitB THEN split(atoms, i, rbegin) ELSE atoms
                     i1 == IF splitB THEN i + 1 ELSE i
                     beg1 == IF atBegin THEN i1 - 1 ELSE beg_idx
                     end1 == IF splitB THEN end_idx + 1 ELSE end_idx
                     atEnd == CoordLE(rend, atoms1[i1].end)
                     splitE == atEnd /\ ~(is_replaced \/ atoms1[i1].end = rend)
                     atoms2 == IF splitE THEN split(atoms1, i1, rend) ELSE atoms1
                     i2 == IF splitE THEN i1 + 1 ELSE i1
                     end2 == IF atEnd THEN i1 ELSE end1
                     calls2 == calls
                                 \o (IF splitB THEN <<SplitCall(a, rbegin)>> ELSE <<>>)
                                 \o (IF splitE THEN <<SplitCall(atoms1[i1], rend)>> ELSE <<>>)
                 IN CarveAtoms(atoms2, i2 + 1, rbegin, rend, beg1, end2, calls2)

(* where the atoms taken from a line go back in: the iterator erase returns *)
InsertPosFront(beg_idx) == 1

InsertPos(beg_idx) == beg_idx + 1

(* one selected line: the atoms moved to the region display, what is left  *)
(* of the line, and the position to insert at                              *)
CarveLine(atoms, rbegin, rend) ==
    IF CoordLT(line_range(atoms)[1], rbegin) \/ CoordLT(rend, line_range(atoms)[2])
    THEN LET c == CarveAtoms(atoms, 1, rbegin, rend, 0, Len(atoms), <<>>)
         IN [region |-> SubSeq(c.atoms, c.beg_idx + 1, c.end_idx),
             line |-> erase(c.atoms, c.beg_idx + 1, c.end_idx + 1),
             insert_pos |-> InsertPos(c.beg_idx),
             ordered |-> c.beg_idx <= c.end_idx,
             calls |-> c.calls]
    ELSE [region |-> atoms, line |-> <<>>, insert_pos |-> 1, ordered |-> TRUE,
          calls |-> <<>>]

(* the lines that meet [rbegin, rend) *)
SelectedLines(lines, rbegin, rend) ==
    {k \in 1..Len(lines) : ~(\/ CoordLE(line_range(lines[k])[2], rbegin)
                             \/ CoordLE(rend, line_range(lines[k])[1]))}

(* the highlighters a group holds, run on the region display *)
RunChild(child, fl, lines, buf) ==
    CASE child.kind = "none" -> lines
      [] child.kind = "fill" -> fill(lines, child.face)
      [] child.kind = "number_lines" -> show_line_numbers(lines, buf)
      [] child.kind = "expand_tabs" -> expand_tabulations(lines, buf)

apply_highlighter(lines, rbegin, rend, child, fl, buf) ==
    LET selected == SelectedLines(lines, rbegin, rend)
        n == Cardinality(selected)
        sel(i) == CHOOSE k \in selected : Cardinality({j \in selected : j < k}) = i - 1
        first_line == sel(1)
        carved == [k \in selected |-> CarveLine(lines[k], rbegin, rend)]
        region_lines == [i \in 1..n |-> carved[sel(i)].region]
        highlighted == RunChild(child, fl, region_lines, buf)
        primary == [k \in 1..Len(lines) |-> IF k \in selected THEN carved[k].line ELSE lines[k]]
    IN IF selected = {} THEN lines
       ELSE [k \in 1..Len(lines) |->
                IF k \in first_line..(first_line + n - 1)
                THEN insert(primary[k], carved[sel(k - first_line + 1)].insert_pos,
                            highlighted[k - first_line + 1])
                ELSE primary[k]]

NoHist == [modifs |-> <<>>, matches |-> <<>>]

MatchIdle == regex = EmptyRegex /\ matches = <<>>
RegionIdle == m_regions = <<>> /\ cache = NewCache /\ begin = [first |-> 1, second |-> 1]
              /\ returned = [how |-> "none", regions |-> <<>>]
DisplayIdle == display = <<>> /\ flags = "Highlight"
RegistryIdle == m_storage = <<>> /\ m_slot_map = {} /\ m_free_slots = <<>> /\ handles = <<>>
CacheIdle == buffers = <<>> /\ values = <<>> /\ next_id = 0 /\ highlighters = <<>>
RefIdle == defined = <<>> /\ refs = {}
NoSelections == [list |-> <<>>, main_index |-> 0]
SelIdle == selections = NoSelections
DynIdle == registers = <<>> /\ dynamic = <<>>
NoFrame == [at |-> "out", events |-> <<>>, forced |-> <<>>, i |-> 0, now |-> 0, it |-> 0]
EvIdle ==
    /\ m_fd_watchers = {} /\ m_timers = {} /\ m_forced_fd = <<>>
    /\ clock = 0 /\ frame = NoFrame
KeyIdle == keymaps = <<>>
TailIdle == EvIdle /\ KeyIdle
LateIdle == SelIdle /\ DynIdle /\ TailIdle
ExtIdle == RegistryIdle /\ CacheIdle /\ RefIdle /\ LateIdle
WordIdle == word_db = [m_words |-> EmptyWordList, m_line_to_words |-> <<>>,
                       m_timestamp |-> 0, asserts_ok |-> TRUE]

MatchInit ==
    /\ buffer \in BuffersOf(MatchLineSet, MaxLines)
    /\ modifs = <<>>
    /\ regex \in MatchRegexSet
    /\ matches = find_matches(buffer, regex)
    /\ hist = NoHist
    /\ pc = "scanned"
    /\ WordIdle /\ RegionIdle /\ DisplayIdle /\ ExtIdle

MatchEdit ==
    /\ pc = "scanned"
    /\ EditBuffer(MatchLineSet, MaxLines, MaxModifs)
    /\ pc' = "edited"
    /\ UNCHANGED <<matchVars, wordVars, regionVars, hist, displayVars, extVars>>

UpdateMatches ==
    /\ pc = "edited"
    /\ matches' = update_matches(buffer, modifs, matches, regex)
    /\ hist' = [modifs |-> modifs, matches |-> matches]
    /\ modifs' = <<>>
    /\ pc' = "updated"
    /\ UNCHANGED <<buffer, regex, wordVars, regionVars, displayVars, extVars>>

MatchNext == MatchEdit \/ UpdateMatches

SpecMatches == MatchInit /\ [][MatchNext]_vars

(* C1: after update_matches the match list is the list find_matches        *)
(* produces on the edited buffer: the same (line, begin, end) entries in   *)
(* the same order, none missing or duplicated, every entry stamped with    *)
(* the buffer's new timestamp.                                             *)
C1_UpdateEqualsRescan ==
    pc = "updated" => matches = find_matches(buffer, regex)

(* an update over two modifications that dropped a match, moved a kept     *)
(* match to another line and found a fresh one                             *)
C1_Witness ==
    /\ pc = "updated"
    /\ Len(hist.modifs) = 2
    /\ \E i \in 1..Len(hist.matches) : MovedMatch(buffer, hist.modifs, hist.matches[i]).erase
    /\ \E i \in 1..Len(hist.matches) :
          LET r == MovedMatch(buffer, hist.modifs, hist.matches[i])
          IN ~r.erase /\ r.match.line # hist.matches[i].line
    /\ RescannedMatches(buffer, hist.modifs, regex) # <<>>

(* ---------------------------------------------------------------------- *)
(* The word database under edits                                           *)
(* ---------------------------------------------------------------------- *)
WordLineSet == {<<"a", " ", "b", "\n">>, <<"a", "b", " ", "a", "\n">>}

WordInit ==
    /\ buffer \in BuffersOf(WordLineSet, MaxWordLines)
    /\ modifs = <<>>
    /\ word_db = NewWordDB(buffer)
    /\ hist = NoHist
    /\ pc = "built"
    /\ MatchIdle /\ RegionIdle /\ DisplayIdle /\ ExtIdle

WordEdit ==
    /\ pc \in {"built", "updated"}
    /\ buffer.timestamp < MaxTimestamp
    /\ EditBuffer(WordLineSet, MaxWordLines, MaxModifs)
    /\ hist' = NoHist
    /\ pc' = "edited"
    /\ UNCHANGED <<matchVars, wordVars, regionVars, displayVars, extVars>>

UpdateDb ==
    /\ pc = "edited"
    /\ word_db' = update_db(word_db, buffer, modifs)
    /\ hist' = LET new == update_db(word_db, buffer, modifs)
                IN [modifs |-> Len(modifs),
                    dropped |-> \E w \in DOMAIN word_db.m_words : w \notin DOMAIN new.m_words,
                    lowered |-> \E w \in DOMAIN word_db.m_words \cap DOMAIN new.m_words :
                                   new.m_words[w] < word_db.m_words[w]]
    /\ modifs' = <<>>
    /\ pc' = "updated"
    /\ UNCHANGED <<buffer, matchVars, regionVars, displayVars, extVars>>

WordNext == WordEdit \/ UpdateDb

SpecWordDB == WordInit /\ [][WordNext]_vars

(* the number of times w appears across the per-line word lists *)
Occurrences(lines, w) ==
    LET all == Flatten(lines)
    IN Cardinality({i \in 1..Len(all) : all[i] = w})

RECURSIVE SumCounts(_, _)
SumCounts(wl, ws) ==
    IF ws = {} THEN 0
    ELSE LET w == CHOOSE x \in ws : TRUE IN wl[w] + SumCounts(wl, ws \ {w})

(* C2: m_words is the multiset union of the per-line word lists: every     *)
(* count is the number of occurrences across the lines, no entry is 0 and  *)
(* the counts sum to the total length of the per-line lists.               *)
C2_WordsAreUnionOfLines ==
    LET lines == word_db.m_line_to_words
        wl == word_db.m_words
        all == Flatten(lines)
    IN /\ DOMAIN wl = {all[i] : i \in 1..Len(all)}
       /\ \A w \in DOMAIN wl : wl[w] = Occurrences(lines, w) /\ wl[w] > 0
       /\ SumCounts(wl, DOMAIN wl) = Len(all)

(* an update over two modifications that removed the last occurrence of a *)
(* word and lowered the count of another                                   *)
C2_Witness ==
    /\ pc = "updated"
    /\ hist.modifs = 2
    /\ hist.dropped
    /\ hist.lowered
    /\ word_db.asserts_ok
    /\ word_db.m_words # EmptyWordList

(* ---------------------------------------------------------------------- *)
(* The regions highlighter's cache under edits and invocations             *)
(* ---------------------------------------------------------------------- *)
RegionLineSet == {<<"{", "{", "}", "}", "\n">>, <<"q", "e", "q", "q", "\n">>,
                  <<"}", "q", "\n">>}

Region(name, b, e, r) == [name |-> name, m_begin |-> b, m_end |-> e, m_recurse |-> r]

RegionDefSet ==
    {<<Region("code", Lit("{"), Lit("}"), Lit("{"))>>,
     <<Region("str", Lit("q"), Lit("q"), Esc("e"))>>,
     <<Region("in", Behind("q"), Ahead("q"), EmptyRegex)>>,
     <<Region("str", Lit("q"), Lit("q"), EmptyRegex),
       Region("code", Lit("{"), Lit("}"), Lit("{"))>>}

(* a buffer's timestamp counts its mutations: a new buffer has 0, one     *)
(* that was edited before the highlighter first saw it has more           *)
InitialTimestamps == {0, 1}

NoCall == [beg_pos |-> <<0, 0>>, found |-> FALSE, end_it |-> 1, consumed |-> 0]
NoRegionHist == [lines |-> <<>>, empty |-> FALSE, asserts_ok |-> TRUE,
                 call |-> NoCall, matches |-> <<>>, pos |-> <<-1, 0>>]

RegionInit ==
    /\ \E b \in BuffersOf(RegionLineSet, MaxRegionLines), t \in InitialTimestamps :
           buffer = [b EXCEPT !.timestamp = t]
    /\ modifs = <<>>
    /\ m_regions \in RegionDefSet
    /\ cache = NewCache
    /\ begin = [first |-> 1, second |-> 1]
    /\ returned = [how |-> "none", regions |-> <<>>]
    /\ hist = NoRegionHist
    /\ pc = "idle"
    /\ MatchIdle /\ WordIdle /\ DisplayIdle /\ ExtIdle

RegionEdit ==
    /\ pc \in {"idle", "returned"}
    /\ buffer.timestamp < MaxTimestamp
    /\ EditBuffer(RegionLineSet, MaxRegionLines, MaxRegionModifs)
    /\ pc' = "idle"
    /\ UNCHANGED <<matchVars, wordVars, regionVars, hist, displayVars, extVars>>

(* update_cache_ifn up to the first test of the resolution loop *)
UpdateCacheIfn ==
    /\ pc \in {"idle", "returned"}
    /\ IF cache.timestamp = buffer.timestamp
       THEN /\ returned' = [how |-> "cached", regions |-> cache.regions]
            /\ pc' = "returned"
            /\ UNCHANGED <<cache, begin, modifs, hist>>
       ELSE LET c == [timestamp |-> cache.timestamp,
                      matches |-> CacheMatches(cache, buffer, modifs, m_regions),
                      regions |-> <<>>]
            IN /\ cache' = c
               /\ begin' = find_next_begin(c, <<-1, 0>>)
               /\ hist' = [NoRegionHist EXCEPT !.lines = buffer.lines]
               /\ modifs' = <<>>
               /\ pc' = "resolve"
               /\ UNCHANGED returned
    /\ UNCHANGED <<buffer, m_regions, matchVars, wordVars, displayVars, extVars>>

(* one turn of the resolution loop *)
ResolveStep ==
    /\ pc = "resolve"
    /\ begin # EndSentinel(cache)
    /\ LET r == ResolveBody(cache, buffer, m_regions, begin)
           regions == Append(cache.regions, r.region)
       IN /\ hist' = [hist EXCEPT !.empty = r.empty, !.asserts_ok = @ /\ r.asserts_ok,
                                  !.call = r.call, !.pos = r.pos,
                                  !.matches = cache.matches[begin.first]]
          /\ IF r.break
             THEN /\ cache' = [cache EXCEPT !.regions = regions,
                                            !.timestamp = buffer.timestamp]
                  /\ returned' = [how |-> "resolved", regions |-> regions]
                  /\ pc' = "returned"
                  /\ UNCHANGED begin
             ELSE /\ cache' = [cache EXCEPT !.regions = regions]
                  /\ begin' = find_next_begin(cache, r.pos)
                  /\ UNCHANGED <<returned, pc>>
    /\ UNCHANGED <<bufVars, m_regions, matchVars, wordVars, displayVars, extVars>>

(* the loop test fails: the cache is stamped and its regions returned *)
ResolveExit ==
    /\ pc = "resolve"
    /\ begin = EndSentinel(cache)
    /\ cache' = [cache EXCEPT !.timestamp = buffer.timestamp]
    /\ returned' = [how |-> "resolved", regions |-> cache.regions]
    /\ pc' = "returned"
    /\ UNCHANGED <<bufVars, m_regions, begin, matchVars, wordVars, hist, displayVars, extVars>>

RegionNext == RegionEdit \/ UpdateCacheIfn \/ ResolveStep \/ ResolveExit

SpecRegions == RegionInit /\ [][RegionNext]_vars

(* C3: whenever update_cache_ifn returns, the region list it returns was  *)
(* resolved from the matches of the buffer's current content, whatever the *)
(* buffer's timestamp: never a stale or never-built list                   *)
C3_ReturnedRegionsAreCurrent ==
    pc = "returned" =>
        /\ hist.lines = buffer.lines
        /\ returned.regions = cache.regions
        /\ cache.matches = [i \in 1..Len(m_regions) |->
                               RegionFindMatches(buffer, m_regions[i])]

(* the recurse matches between the position b and the end match e *)
RecurseBetween(m, b, e) ==
    {i \in 1..Len(m.recurse_matches) :
        /\ CoordLE(b, begin_coord(m.recurse_matches[i]))
        /\ CoordLE(end_coord(m.recurse_matches[i]), begin_coord(e))}

(* C8: when find_matching_end(b) returns an end match e, the recurse       *)
(* matches that start at or after b and end at or before the start of e    *)
(* are as many as the end matches passed over before e, also when a        *)
(* recurse match ends exactly where an end match begins                    *)
C8_RecurseCountEqualsPassedEnds ==
    (pc \in {"resolve", "returned"} /\ hist.call.found) =>
        Cardinality(RecurseBetween(hist.matches, hist.call.beg_pos,
                                   hist.matches.end_matches[hist.call.end_it]))
            = hist.call.consumed

(* C9: with begin and end the quote and recurse the escaped quote, the     *)
(* line "\"" (quote, backslash, quote, quote) resolves to exactly one      *)
(* region spanning the whole input                                         *)
C9_EscapedQuoteOneRegion ==
    (/\ pc = "returned" /\ returned.how = "resolved"
     /\ m_regions = <<Region("str", Lit("q"), Lit("q"), Esc("e"))>>
     /\ buffer.lines = <<(<<"q", "e", "q", "q", "\n">>)>>) =>
        returned.regions = <<[begin |-> <<0, 0>>, end |-> <<0, 4>>, group |-> "str"]>>

BeginCoordOf(c, b) == begin_coord(c.matches[b.first].begin_matches[b.second])

RECURSIVE SumBegins(_, _)
SumBegins(c, i) ==
    IF i > Len(c.matches) THEN 0
    ELSE Len(c.matches[i].begin_matches) + SumBegins(c, i + 1)

ResolveProgress ==
    (pc = "resolve" /\ begin # EndSentinel(cache)) =>
        /\ hist'.asserts_ok
        /\ Len(cache'.regions) <= SumBegins(cache', 1)
        /\ hist'.empty => hist'.pos = <<hist'.pos[1], BeginCoordOf(cache, begin)[2] + 1>>
        /\ (pc' = "resolve" /\ begin' # EndSentinel(cache')) =>
               CoordLT(BeginCoordOf(cache, begin), BeginCoordOf(cache', begin'))

(* C10: the resolution loop terminates: every turn selects a begin match   *)
(* strictly after the previous one, so the turns are at most the begin     *)
(* matches, and when an empty begin and an empty end match meet at one     *)
(* coordinate the search resumes one column further                        *)
C10_ResolutionTerminates == [][ResolveProgress]_vars

C10_Witness ==
    /\ pc = "resolve"
    /\ hist.empty
    /\ Len(cache.regions) >= 2
    /\ begin # EndSentinel(cache)

(* ---------------------------------------------------------------------- *)
(* A highlighting pass over the display buffer of a window                 *)
(* ---------------------------------------------------------------------- *)
DisplayBufferSet ==
    {[lines |-> <<(<<"a", "\t", "a", "\n">>), (<<"u", " ", "\n">>)>>, timestamp |-> 1],
     [lines |-> <<(<<"u", "\t", "\n">>)>>, timestamp |-> 1]}

(* the ranges highlighters are called with: inside a line, empty, a whole  *)
(* line, across two lines                                                  *)
DisplayRangeSet(buf) ==
    {r \in {<<(<<0, 1>>), (<<0, 2>>)>>, <<(<<0, 1>>), (<<0, 1>>)>>,
            <<(<<0, 0>>), (<<1, 0>>)>>, <<(<<0, 2>>), (<<1, 1>>)>>,
            <<(<<0, 0>>), (<<0, 2>>)>>, <<(<<1, 0>>), (<<2, 0>>)>>} :
        CoordLE(r[2], <<line_count(buf), 0>>)}

FillFace == [fg |-> "blue", bg |-> "default"]
LineFace == [fg |-> "default", bg |-> "grey"]
RangeFace == [fg |-> "green", bg |-> "default"]

ChildSet == {[kind |-> "none"], [kind |-> "fill", face |-> FillFace],
             [kind |-> "number_lines"], [kind |-> "expand_tabs"]}

FlagOption == <<[line |-> 1, color |-> "red", flag |-> <<"!">>]>>

DisplayInit ==
    /\ buffer \in DisplayBufferSet
    /\ modifs = <<>>
    /\ \E first \in 0..(line_count(buffer) - 1), last \in 0..(line_count(buffer) - 1) :
           /\ first <= last
           /\ (first = 0 \/ last = line_count(buffer) - 1)
           /\ display = WindowDisplay(first, last)
    /\ flags \in {"Highlight", "MoveOnly"}
    /\ hist = [op |-> [kind |-> "none"], before |-> display, orig |-> display,
               twice |-> FALSE, n |-> 0]
    /\ pc = "display"
    /\ MatchIdle /\ WordIdle /\ RegionIdle /\ ExtIdle

(* a highlighter of the pass runs while the pass is not over *)
CanInvoke == pc = "display" /\ hist.n < MaxOps

(* the record of the invocation: the highlighter, the display buffer it    *)
(* was given, whether the invocation before was the same one               *)
Invoked(op) ==
    [hist EXCEPT !.op = op, !.before = display, !.twice = (hist.op = op), !.n = @ + 1]

Fill ==
    /\ CanInvoke
    /\ display' = fill(display, FillFace)
    /\ hist' = Invoked([kind |-> "fill", face |-> FillFace])
    /\ UNCHANGED <<bufVars, flags, matchVars, wordVars, regionVars, pc, extVars>>

LineOption ==
    /\ CanInvoke
    /\ \E line \in 1..line_count(buffer) :
           /\ display' = highlight_line_option(display, line, LineFace)
           /\ hist' = Invoked([kind |-> "line_option", line |-> line])
    /\ UNCHANGED <<bufVars, flags, matchVars, wordVars, regionVars, pc, extVars>>

HighlightRange ==
    /\ CanInvoke
    /\ \E r \in DisplayRangeSet(buffer), skip_replaced \in BOOLEAN :
           /\ display' = highlight_range(display, r[1], r[2], skip_replaced,
                                           FaceFunctor(RangeFace))
           /\ hist' = Invoked([kind |-> "highlight_range", range |-> r,
                               skip_replaced |-> skip_replaced])
    /\ UNCHANGED <<bufVars, flags, matchVars, wordVars, regionVars, pc, extVars>>

ApplyHighlighter ==
    /\ CanInvoke
    /\ \E r \in DisplayRangeSet(buffer), child \in ChildSet :
           /\ display' = apply_highlighter(display, r[1], r[2], child, flags, buffer)
           /\ hist' = Invoked([kind |-> "apply_highlighter", range |-> r, child |-> child])
    /\ UNCHANGED <<bufVars, flags, matchVars, wordVars, regionVars, pc, extVars>>

ExpandTabulations ==
    /\ CanInvoke
    /\ display' = expand_tabulations(display, buffer)
    /\ hist' = Invoked([kind |-> "expand_tabulations"])
    /\ UNCHANGED <<bufVars, flags, matchVars, wordVars, regionVars, pc, extVars>>

ShowWhitespaces ==
    /\ CanInvoke
    /\ display' = show_whitespaces(display, buffer)
    /\ hist' = Invoked([kind |-> "show_whitespaces"])
    /\ UNCHANGED <<bufVars, flags, matchVars, wordVars, regionVars, pc, extVars>>

ExpandUnprintable ==
    /\ CanInvoke
    /\ display' = expand_unprintable(display, buffer)
    /\ hist' = Invoked([kind |-> "expand_unprintable"])
    /\ UNCHANGED <<bufVars, flags, matchVars, wordVars, regionVars, pc, extVars>>

ShowLineNumbers ==
    /\ CanInvoke
    /\ display' = show_line_numbers(display, buffer)
    /\ hist' = Invoked([kind |-> "number_lines"])
    /\ UNCHANGED <<bufVars, flags, matchVars, wordVars, regionVars, pc, extVars>>

FlagLines ==
    /\ CanInvoke
    /\ display' = flag_lines(display, FlagOption, "black")
    /\ hist' = Invoked([kind |-> "flag_lines"])
    /\ UNCHANGED <<bufVars, flags, matchVars, wordVars, regionVars, pc, extVars>>

DisplayNext ==
    \/ Fill \/ LineOption \/ HighlightRange \/ ApplyHighlighter
    \/ ExpandTabulations \/ ShowWhitespaces \/ ExpandUnprintable
    \/ ShowLineNumbers \/ FlagLines

SpecDisplay == DisplayInit /\ [][DisplayNext]_vars

(* the atoms of a line that have a buffer range come in increasing order *)
AtomsOrdered(atoms) ==
    \A i \in 1..Len(atoms), j \in 1..Len(atoms) :
        (i < j /\ has_buffer_range(atoms[i]) /\ has_buffer_range(atoms[j]))
            => CoordLE(atoms[i].end, atoms[j].begin)

(* the buffer positions the atoms of a line cover *)
Covered(atoms) ==
    UNION {CoordsIn(buffer, atoms[i].begin, atoms[i].end) :
              i \in {i \in 1..Len(atoms) : has_buffer_range(atoms[i])}}

(* C4: after any sequence of highlighter invocations on the display buffer *)
(* of a window, on every line the atoms that have a buffer range are       *)
(* non-overlapping and increasing, and the union of their ranges is the    *)
(* one the line started with                                               *)
C4_AtomsOrderedUnionKept ==
    pc = "display" =>
        /\ Len(display) = Len(hist.orig)
        /\ \A k \in 1..Len(display) :
               /\ AtomsOrdered(display[k])
               /\ Covered(display[k]) = Covered(hist.orig[k])

C4_Witness ==
    /\ pc = "display" /\ hist.n >= 2
    /\ hist.op.kind = "apply_highlighter"
    /\ \E k \in 1..Len(display) :
           /\ Len(display[k]) >= 4
           /\ \E i \in 1..Len(display[k]) : display[k][i].type = "ReplacedBufferRange"
           /\ \E i \in 2..Len(display[k]) : display[k][i].type = "Text"

(* the highlighters the idempotence statement names, as far as they are    *)
(* run here; highlight_range is what regex and show_matching do to the     *)
(* display buffer, apply_highlighter what regions does                     *)
NamedIdempotent ==
    {"fill", "line_option", "number_lines", "flag_lines", "show_whitespaces",
     "expand_tabulations", "expand_unprintable", "highlight_range", "apply_highlighter"}

(* C5 as stated: a highlighter other than selections invoked twice in a   *)
(* row leaves the display buffer as one invocation left it                 *)
C5_TwiceEqualsOnce ==
    (pc = "display" /\ hist.twice /\ hist.op.kind \in NamedIdempotent) =>
        display = hist.before

(* the invocations that are not idempotent: number_lines and flag_lines,   *)
(* which insert an atom each time they run, alone or as the child of       *)
(* apply_highlighter, and apply_highlighter over an empty range            *)
NotIdempotent(op) ==
    \/ op.kind \in {"number_lines", "flag_lines"}
    \/ /\ op.kind = "apply_highlighter"
       /\ (op.child.kind = "number_lines" \/ op.range[1] = op.range[2])

(* C5, restricted: fill, line_option, show_whitespaces, expand_tabulations, *)
(* expand_unprintable, a face overlay through highlight_range, and         *)
(* apply_highlighter over a non-empty range with a child among these,      *)
(* invoked twice in a row leave the display buffer as one invocation left  *)
(* it                                                                      *)
C5_TwiceEqualsOnceUnlessInserting ==
    (pc = "display" /\ hist.twice /\ ~NotIdempotent(hist.op)) =>
        display = hist.before

C5_Witness ==
    /\ pc = "display" /\ hist.twice
    /\ hist.op.kind = "expand_tabulations"
    /\ display = hist.before
    /\ display # hist.orig

(* the face shown at a buffer position of a line *)
FaceAt(atoms, x) ==
    LET i == CHOOSE i \in 1..Len(atoms) :
                 /\ has_buffer_range(atoms[i])
                 /\ x \in CoordsIn(buffer, atoms[i].begin, atoms[i].end)
    IN atoms[i].face

SimpleHighlighters ==
    {"fill", "line_option", "show_whitespaces", "expand_tabulations", "number_lines",
     "flag_lines", "expand_unprintable"}

(* C6: with flags = MoveOnly a simple highlighter changes the face of no   *)
(* atom: every buffer position shows the face it showed before the call    *)
C6_MoveOnlyKeepsFaces ==
    (pc = "display" /\ flags = "MoveOnly" /\ hist.op.kind \in SimpleHighlighters) =>
        \A k \in 1..Len(display) :
            \A x \in Covered(hist.before[k]) :
                FaceAt(display[k], x) = FaceAt(hist.before[k], x)

(* C7: apply_highlighter with a child that modifies nothing: every line,   *)
(* once optimized, is the line it was, once optimized                      *)
C7_IdentityChildRoundTrip ==
    (pc = "display" /\ hist.op.kind = "apply_highlighter"
                    /\ hist.op.child.kind = "none") =>
        /\ Len(display) = Len(hist.before)
        /\ \A k \in 1..Len(display) : optimize(display[k]) = optimize(hist.before[k])

C7_Witness ==
    /\ pc = "display" /\ hist.n >= 2
    /\ hist.op.kind = "apply_highlighter" /\ hist.op.child.kind = "none"
    /\ \E k \in 1..Len(display) :
           /\ display[k] # hist.before[k]
           /\ \E i \in 1..Len(display[k]) : ~(display[k][i].type = "BufferRange")

(* ---------------------------------------------------------------------- *)
(* StringRegistry (interned_string.cc)                                     *)
(* ---------------------------------------------------------------------- *)
MaxHandles == 3
MaxAcquires == 3

DataAndRefCount(data, count) == [first |-> data, second |-> count]

\* StringView{m_storage[slot].first.data(), size}: a view is the slot whose
\* data it points to and a length.
storage_view(storage, slot) == [slot |-> slot, size |-> Len(storage[slot].first)]

Dangling == <<"dangling">>

\* the bytes a view denotes, read through the storage it points to
ViewData(storage, view) ==
    IF view.slot \in 1..Len(storage) /\ view.size = Len(storage[view.slot].first)
    THEN storage[view.slot].first
    ELSE Dangling

\* m_slot_map.find(str): the entries whose key compares equal to str
slot_map_find(storage, slot_map, str) ==
    {e \in slot_map : ViewData(storage, e.key) = str}

\* the mutation of pop_back: the reused slot stays on the free list
PopBackNone(s) == s

\* m_free_slots.pop_back()
PopBack(s) == SubSeq(s, 1, Len(s) - 1)

\* StringRegistry::acquire: [m_storage, m_slot_map, m_free_slots, result]
acquire(storage, slot_map, free_slots, str) ==
    LET it == slot_map_find(storage, slot_map, str) IN
    IF it = {}
    THEN LET reuse == free_slots /= <<>>
             slot == IF reuse THEN free_slots[Len(free_slots)] ELSE Len(storage) + 1
             st == IF reuse
                   THEN [storage EXCEPT ![slot] = DataAndRefCount(str, 1)]
                   ELSE Append(storage, DataAndRefCount(str, 1))
             view == storage_view(st, slot)
         IN [m_storage |-> st,
             m_slot_map |-> slot_map \cup {[key |-> view, value |-> slot]},
             m_free_slots |-> IF reuse THEN PopBack(free_slots) ELSE free_slots,
             result |-> view]
    ELSE LET slot == (CHOOSE e \in it : TRUE).value
             st == [storage EXCEPT ![slot].second = @ + 1]
         IN [m_storage |-> st,
             m_slot_map |-> slot_map,
             m_free_slots |-> free_slots,
             result |-> storage_view(st, slot)]

\* the mutation of release: the slot is freed one release too early
release_early(storage, slot_map, free_slots, str) ==
    LET it == slot_map_find(storage, slot_map, str) IN
    IF it = {}
    THEN [m_storage |-> storage, m_slot_map |-> slot_map,
          m_free_slots |-> free_slots, asserts_ok |-> FALSE]
    ELSE LET e == CHOOSE x \in it : TRUE
             slot == e.value
             st == [storage EXCEPT ![slot].second = @ - 1]
         IN IF st[slot].second <= 1
            THEN [m_storage |-> [st EXCEPT ![slot].first = <<>>],
                  m_slot_map |-> slot_map \ {e},
                  m_free_slots |-> Append(free_slots, slot),
                  asserts_ok |-> TRUE]
            ELSE [m_storage |-> st, m_slot_map |-> slot_map,
                  m_free_slots |-> free_slots, asserts_ok |-> TRUE]

\* the mutation of release: the bytes of a freed slot are kept
release_keep_data(storage, slot_map, free_slots, str) ==
    LET it == slot_map_find(storage, slot_map, str) IN
    IF it = {}
    THEN [m_storage |-> storage, m_slot_map |-> slot_map,
          m_free_slots |-> free_slots, asserts_ok |-> FALSE]
    ELSE LET e == CHOOSE x \in it : TRUE
             slot == e.value
             st == [storage EXCEPT ![slot].second = @ - 1]
         IN IF st[slot].second = 0
            THEN [m_storage |-> st,
                  m_slot_map |-> slot_map \ {e},
                  m_free_slots |-> Append(free_slots, slot),
                  asserts_ok |-> TRUE]
            ELSE [m_storage |-> st, m_slot_map |-> slot_map,
                  m_free_slots |-> free_slots, asserts_ok |-> TRUE]

\* StringRegistry::release: [m_storage, m_slot_map, m_free_slots, asserts_ok]
release(storage, slot_map, free_slots, str) ==
    LET it == slot_map_find(storage, slot_map, str) IN
    IF it = {}
    THEN [m_storage |-> storage, m_slot_map |-> slot_map,
          m_free_slots |-> free_slots, asserts_ok |-> FALSE]
    ELSE LET e == CHOOSE x \in it : TRUE
             slot == e.value
             st == [storage EXCEPT ![slot].second = @ - 1]
         IN IF st[slot].second = 0
            THEN [m_storage |-> [st EXCEPT ![slot].first = <<>>],
                  m_slot_map |-> slot_map \ {e},
                  m_free_slots |-> Append(free_slots, slot),
                  asserts_ok |-> TRUE]
            ELSE [m_storage |-> st, m_slot_map |-> slot_map,
                  m_free_slots |-> free_slots, asserts_ok |-> TRUE]

(* ---------------------------------------------------------------------- *)
(* Specification: acquire and release calls on the string registry        *)
(* ---------------------------------------------------------------------- *)
StringSet == {<<"a">>, <<"b">>, <<"a", "b">>}

\* hist of the registry: the last call, the bytes each held view was
\* acquired for (parallel to handles), and the calls made per byte sequence
RegistryInit ==
    /\ RegistryIdle /\ CacheIdle /\ RefIdle /\ LateIdle
    /\ hist = [op |-> "none", str |-> <<>>, result |-> [slot |-> 0, size |-> 0],
               was_live |-> FALSE, asserts_ok |-> TRUE, held |-> <<>>,
               acquired |-> [s \in StringSet |-> 0],
               released |-> [s \in StringSet |-> 0]]
    /\ pc = "registry"
    /\ buffer = [lines |-> <<>>, timestamp |-> 0] /\ modifs = <<>>
    /\ MatchIdle /\ WordIdle /\ RegionIdle /\ DisplayIdle

RemoveAt(s, i) == SubSeq(s, 1, i - 1) \o SubSeq(s, i + 1, Len(s))

Acquire ==
    /\ pc = "registry"
    /\ Len(handles) < MaxHandles
    /\ \E str \in StringSet :
        /\ hist.acquired[str] < MaxAcquires
        /\ LET r == acquire(m_storage, m_slot_map, m_free_slots, str) IN
            /\ m_storage' = r.m_storage
            /\ m_slot_map' = r.m_slot_map
            /\ m_free_slots' = r.m_free_slots
            /\ handles' = Append(handles, r.result)
            /\ hist' = [hist EXCEPT !.op = "acquire", !.str = str, !.result = r.result,
                           !.was_live = slot_map_find(m_storage, m_slot_map, str) /= {},
                           !.held = Append(@, str),
                           !.acquired[str] = @ + 1]
    /\ UNCHANGED <<bufVars, matchVars, wordVars, regionVars, displayVars, cacheVars, refVars, lateVars, pc>>

\* ~InternedString: the holder of a view releases the bytes its view denotes
Release ==
    /\ pc = "registry"
    /\ \E i \in 1..Len(handles) :
        LET str == ViewData(m_storage, handles[i])
            r == release(m_storage, m_slot_map, m_free_slots, str) IN
            /\ m_storage' = r.m_storage
            /\ m_slot_map' = r.m_slot_map
            /\ m_free_slots' = r.m_free_slots
            /\ handles' = RemoveAt(handles, i)
            /\ hist' = [hist EXCEPT !.op = "release", !.str = hist.held[i],
                           !.result = handles[i],
                           !.was_live = slot_map_find(m_storage, m_slot_map, str) /= {},
                           !.asserts_ok = @ /\ r.asserts_ok,
                           !.held = RemoveAt(@, i),
                           !.released[hist.held[i]] = @ + 1]
    /\ UNCHANGED <<bufVars, matchVars, wordVars, regionVars, displayVars, cacheVars, refVars, lateVars, pc>>

RegistryNext == Acquire \/ Release

SpecRegistry == RegistryInit /\ [][RegistryNext]_vars

\* the slot the map gives to a byte sequence, 0 when it has none
SlotOf(storage, slot_map, str) ==
    LET it == slot_map_find(storage, slot_map, str) IN
    IF it = {} THEN 0 ELSE (CHOOSE e \in it : TRUE).value

InFreeList(free_slots, slot) == \E k \in 1..Len(free_slots) : free_slots[k] = slot

\* C11: acquiring a live byte sequence returns a view of the slot it already
\* has, increments that slot's count and creates no slot (storage size, slot
\* map and free list unchanged); a release frees the slot (entry removed
\* from the slot map, slot pushed on the free list) exactly when the number
\* of releases of the sequence reaches the number of its acquires, and the
\* sequence keeps its slot as long as it has fewer releases than acquires.
C11_AcquireStep ==
    (hist'.op = "acquire" /\ hist'.was_live) =>
        LET slot == SlotOf(m_storage, m_slot_map, hist'.str) IN
        /\ hist'.result.slot = slot
        /\ \A i \in 1..Len(handles) : hist.held[i] = hist'.str => handles[i] = hist'.result
        /\ m_storage'[slot].second = m_storage[slot].second + 1
        /\ Len(m_storage') = Len(m_storage)
        /\ m_slot_map' = m_slot_map
        /\ m_free_slots' = m_free_slots

C11_ReleaseStep ==
    hist'.op = "release" =>
        LET str == hist'.str
            slot == SlotOf(m_storage, m_slot_map, str)
            freed == /\ SlotOf(m_storage', m_slot_map', str) = 0
                     /\ InFreeList(m_free_slots', slot)
                     /\ ~InFreeList(m_free_slots, slot)
        IN /\ slot /= 0
           /\ hist'.asserts_ok
           /\ freed <=> hist'.released[str] = hist'.acquired[str]
           /\ ~freed => /\ SlotOf(m_storage', m_slot_map', str) = slot
                        /\ m_free_slots' = m_free_slots

C11_LiveIffOutstanding ==
    \A str \in StringSet :
        /\ hist'.released[str] <= hist'.acquired[str]
        /\ (SlotOf(m_storage', m_slot_map', str) /= 0)
             <=> hist'.released[str] < hist'.acquired[str]
        /\ SlotOf(m_storage', m_slot_map', str) /= 0 =>
             m_storage'[SlotOf(m_storage', m_slot_map', str)].second
                 = hist'.acquired[str] - hist'.released[str]

C11_SharedSlotFreedAtLastRelease ==
    [][pc = "registry" => C11_AcquireStep /\ C11_ReleaseStep /\ C11_LiveIffOutstanding]_vars

\* a second acquire of a live sequence happened, and a slot was freed by the
\* last of several releases
C11_Witness ==
    /\ pc = "registry"
    /\ hist.op = "release"
    /\ hist.acquired[hist.str] >= 2
    /\ hist.released[hist.str] = hist.acquired[hist.str]
    /\ InFreeList(m_free_slots, hist.result.slot)
    /\ Len(handles) > 0

\* C12: every held view denotes the bytes it was acquired for and its slot
\* has a positive count, whatever was acquired or released since; and no
\* step changes the data of a slot that stays live (neither the reuse of a
\* free slot nor the release of another sequence touches it).
C12_LiveSlotsUntouched ==
    \A e \in m_slot_map :
        (hist'.op = "release" /\ hist'.result.slot = e.value
            /\ hist'.released[hist'.str] = hist'.acquired[hist'.str])
        \/ /\ e \in m_slot_map'
           /\ m_storage'[e.value].first = m_storage[e.value].first
           /\ m_storage'[e.value].second > 0

C12_HeldViewsDenoteTheirBytes ==
    \A i \in 1..Len(handles') :
        /\ ViewData(m_storage', handles'[i]) = hist'.held[i]
        /\ m_storage'[handles'[i].slot].second > 0

C12_HandleStaysValid ==
    [][pc = "registry" => C12_LiveSlotsUntouched /\ C12_HeldViewsDenoteTheirBytes]_vars

\* a free slot has just been reused for a new sequence while a view of another
\* sequence, already released by one of its holders, is still held
C12_Witness ==
    /\ pc = "registry"
    /\ Len(handles) >= 2
    /\ hist.op = "acquire" /\ ~hist.was_live
    /\ hist.result.slot < Len(m_storage)
    /\ \E s \in StringSet : s /= hist.str /\ hist.released[s] > 0
                            /\ hist.released[s] < hist.acquired[s]

(* ---------------------------------------------------------------------- *)
(* WordDB queries (word_db.cc:107-140)                                     *)
(* ---------------------------------------------------------------------- *)
ByteValue(c) ==
    CASE c = "a" -> 97 [] c = "b" -> 98 [] c = "f" -> 102
      [] c = "o" -> 111 [] c = "r" -> 114

\* operator<(StringView, StringView): bytewise lexicographic order
LexLess(a, b) ==
    \E k \in 1..(Min(Len(a), Len(b)) + 1) :
        /\ \A j \in 1..(k - 1) : a[j] = b[j]
        /\ \/ k > Len(a) /\ k <= Len(b)
           \/ k <= Len(a) /\ k <= Len(b) /\ ByteValue(a[k]) < ByteValue(b[k])

\* the keys of the std::map in iteration order
RECURSIVE SortedKeys(_)
SortedKeys(S) ==
    IF S = {} THEN <<>>
    ELSE LET least == CHOOSE x \in S : \A y \in S \ {x} : LexLess(x, y)
         IN <<least>> \o SortedKeys(S \ {least})

prefix_match(str, prefix) ==
    Len(prefix) <= Len(str) /\ SubSeq(str, 1, Len(prefix)) = prefix

RECURSIVE SubsequenceFrom(_, _, _, _)
SubsequenceFrom(str, i, subseq, j) ==
    IF j > Len(subseq) THEN TRUE
    ELSE IF i > Len(str) THEN FALSE
    ELSE IF str[i] = subseq[j] THEN SubsequenceFrom(str, i + 1, subseq, j + 1)
    ELSE SubsequenceFrom(str, i + 1, subseq, j)

subsequence_match(str, subseq) == SubsequenceFrom(str, 1, subseq, 1)

\* the position after the keys that are not greater than the prefix
UpperBoundKey(keys, prefix) ==
    LET above == {i \in 1..Len(keys) : LexLess(prefix, keys[i])}
    IN IF above = {} THEN Len(keys) + 1 ELSE CHOOSE i \in above : \A j \in above : i <= j

\* m_words.lower_bound(prefix)
LowerBoundKey(keys, prefix) ==
    LET notless == {i \in 1..Len(keys) : ~LexLess(keys[i], prefix)}
    IN IF notless = {} THEN Len(keys) + 1 ELSE CHOOSE i \in notless : \A j \in notless : i <= j

RECURSIVE FindPrefixLoop(_, _, _)
FindPrefixLoop(keys, it, prefix) ==
    IF it > Len(keys) THEN <<>>
    ELSE IF ~prefix_match(keys[it], prefix) THEN <<>>
    ELSE <<keys[it]>> \o FindPrefixLoop(keys, it + 1, prefix)

\* WordDB::find_prefix: [db, res]
find_prefix(db, buf, ms, prefix) ==
    LET updated == update_db(db, buf, ms)
        keys == SortedKeys(DOMAIN updated.m_words)
    IN [db |-> updated,
        res |-> FindPrefixLoop(keys, LowerBoundKey(keys, prefix), prefix)]

\* WordDB::find_subsequence: [db, res]
find_subsequence(db, buf, ms, subsequence) ==
    LET updated == update_db(db, buf, ms)
        keys == SortedKeys(DOMAIN updated.m_words)
    IN [db |-> updated,
        res |-> SelectSeq(keys, LAMBDA w : subsequence_match(w, subsequence))]

\* WordDB::get_word_occurences
get_word_occurences(db, word) ==
    IF word \in DOMAIN db.m_words THEN db.m_words[word] ELSE 0

(* ---------------------------------------------------------------------- *)
(* Specification: queries of the word database between buffer edits       *)
(* ---------------------------------------------------------------------- *)
Foo == <<"f", "o", "o">>
Bar == <<"b", "a", "r">>
FooBar == Foo \o Bar

MaxQueryLines == 2
MaxQueryModifs == 1
MaxQueryEdits == 1

QueryLineSet == {Foo \o <<" ">> \o Bar \o <<"\n">>,
                 FooBar \o <<" ">> \o Foo \o <<"\n">>}
PrefixSet == {<<>>, Foo, <<"b">>, <<"f", "o", "o", "b">>}
SubsequenceSet == {<<"f", "r">>, <<"o", "o">>}
QueryWordSet == {Foo, Bar, FooBar}

\* hist of a query: the call, its argument, what it returned and whether
\* an edit had been made since the database was last brought up to date
QueryInit ==
    /\ buffer \in BuffersOf(QueryLineSet, MaxQueryLines)
    /\ modifs = <<>>
    /\ word_db = NewWordDB(buffer)
    /\ hist = [op |-> "none", arg |-> <<>>, res |-> <<>>, pending |-> FALSE]
    /\ pc = "built"
    /\ MatchIdle /\ RegionIdle /\ DisplayIdle /\ ExtIdle

QueryEdit ==
    /\ pc \in {"built", "updated"}
    /\ buffer.timestamp < MaxQueryEdits
    /\ EditBuffer(QueryLineSet, MaxQueryLines, MaxQueryModifs)
    /\ hist' = [op |-> "edit", arg |-> <<>>, res |-> <<>>, pending |-> TRUE]
    /\ pc' = "edited"
    /\ UNCHANGED <<matchVars, wordVars, regionVars, displayVars, extVars>>

FindPrefix ==
    /\ pc \in {"built", "edited", "updated"}
    /\ \E prefix \in PrefixSet :
        LET r == find_prefix(word_db, buffer, modifs, prefix) IN
        /\ word_db' = r.db
        /\ hist' = [op |-> "find_prefix", arg |-> prefix, res |-> r.res,
                    pending |-> pc = "edited"]
    /\ modifs' = <<>>
    /\ pc' = "updated"
    /\ UNCHANGED <<buffer, matchVars, regionVars, displayVars, extVars>>

FindSubsequence ==
    /\ pc \in {"built", "edited", "updated"}
    /\ \E subsequence \in SubsequenceSet :
        LET r == find_subsequence(word_db, buffer, modifs, subsequence) IN
        /\ word_db' = r.db
        /\ hist' = [op |-> "find_subsequence", arg |-> subsequence, res |-> r.res,
                    pending |-> pc = "edited"]
    /\ modifs' = <<>>
    /\ pc' = "updated"
    /\ UNCHANGED <<buffer, matchVars, regionVars, displayVars, extVars>>

GetWordOccurences ==
    /\ pc \in {"built", "edited", "updated"}
    /\ \E word \in QueryWordSet :
        hist' = [op |-> "get_word_occurences", arg |-> word,
                 res |-> get_word_occurences(word_db, word),
                 pending |-> pc = "edited"]
    /\ UNCHANGED <<bufVars, matchVars, wordVars, regionVars, displayVars, extVars, pc>>

QueryNext == QueryEdit \/ FindPrefix \/ FindSubsequence \/ GetWordOccurences

SpecWordQuery == QueryInit /\ [][QueryNext]_vars

\* the words of the current buffer lines, line by line
BufferWords(buf) == [l \in 1..Len(buf.lines) |-> get_words(buf.lines[l])]

\* C13: whatever get_word_occurences(w) returns is the number of occurrences
\* of w in the current buffer lines, also when the buffer was edited and
\* neither find_prefix nor find_subsequence has been called since.
C13_OccurrencesReflectBuffer ==
    hist.op = "get_word_occurences" =>
        hist.res = Occurrences(BufferWords(buffer), hist.arg)

\* the distinct words of the current buffer lines
BufferWordSet(buf) ==
    LET all == Flatten(BufferWords(buf)) IN {all[i] : i \in 1..Len(all)}

\* C17: find_prefix(p) returns the distinct words of the database, which are
\* those of the current buffer lines, that start with p, each once, in
\* increasing order; for the lines "foo bar" and "foobar foo" and p = "foo"
\* it returns <<foo, foobar>> and get_word_occurences(foo) is then 2.
C17_FindPrefixSortedDistinct ==
    hist.op = "find_prefix" =>
        /\ {hist.res[i] : i \in 1..Len(hist.res)}
             = {w \in BufferWordSet(buffer) : prefix_match(w, hist.arg)}
        /\ {hist.res[i] : i \in 1..Len(hist.res)} \subseteq DOMAIN word_db.m_words
        /\ \A i \in 1..(Len(hist.res) - 1) : LexLess(hist.res[i], hist.res[i + 1])
        /\ (buffer.lines = <<Foo \o <<" ">> \o Bar \o <<"\n">>,
                             FooBar \o <<" ">> \o Foo \o <<"\n">>>>
              /\ hist.arg = Foo)
             => /\ hist.res = <<Foo, FooBar>>
                /\ get_word_occurences(word_db, Foo) = 2

\* find_prefix("foo") ran on the lines "foo bar", "foobar foo" that an edit
\* had just produced
C17_Witness ==
    /\ pc = "updated"
    /\ hist.op = "find_prefix"
    /\ hist.arg = Foo
    /\ hist.pending
    /\ buffer.lines = <<Foo \o <<" ">> \o Bar \o <<"\n">>,
                        FooBar \o <<" ">> \o Foo \o <<"\n">>>>
    /\ hist.res = <<Foo, FooBar>>

(* ---------------------------------------------------------------------- *)
(* Highlighter factories (highlighters.cc:166-182, 272-416, 629-708,       *)
(* 1032-1096)                                                              *)
(* ---------------------------------------------------------------------- *)
MaxParams == 9

\* a factory either throws runtime_error or returns a HighlighterAndId
Thrown == [threw |-> TRUE, highlighter |-> "none"]
HighlighterAndId(kind) == [threw |-> FALSE, highlighter |-> kind]

\* n is params.size(); valid tells whether the content checks of the
\* factory (face spec, colour, option type, regex syntax) pass

\* SimpleHighlighterFactory<f>::operator(): the parameters are not looked at
SimpleHighlighterFactory(kind, n, valid) == HighlighterAndId(kind)

fill_factory(n, valid) ==
    IF n /= 1 THEN Thrown
    ELSE IF ~valid THEN Thrown ELSE HighlighterAndId("fill")

highlight_regex_factory(n, valid) ==
    IF n < 2 THEN Thrown
    ELSE IF ~valid THEN Thrown ELSE HighlighterAndId("regex")

highlight_search_factory(n, valid) ==
    IF n /= 0 THEN Thrown ELSE HighlighterAndId("search")

highlight_regex_option_factory(n, valid) ==
    IF n /= 2 THEN Thrown
    ELSE IF ~valid THEN Thrown ELSE HighlighterAndId("regex_option")

highlight_line_option_factory(n, valid) ==
    IF n /= 2 THEN Thrown
    ELSE IF ~valid THEN Thrown ELSE HighlighterAndId("line_option")

flag_lines_factory(n, valid) ==
    IF n /= 2 THEN Thrown
    ELSE IF ~valid THEN Thrown ELSE HighlighterAndId("flag_lines")

highlighter_group_factory(n, valid) ==
    IF n /= 1 THEN Thrown ELSE HighlighterAndId("group")

reference_factory(n, valid) ==
    IF n /= 1 THEN Thrown ELSE HighlighterAndId("ref")

\* ParameterDesc{.., SwitchesOnlyAtStart, 5}: the parser wants at least
\* this many positional parameters
RegionsMinPositionals == 5

\* n is parser.positional_count()
regions_factory(n, valid) ==
    IF n < RegionsMinPositionals THEN Thrown
    ELSE IF (n % 4) /= 1 THEN Thrown
    ELSE IF ~valid THEN Thrown ELSE HighlighterAndId("regions")

FactoryNames ==
    {"number_lines", "show_matching", "show_whitespaces", "fill", "regex",
     "regex_option", "search", "group", "flag_lines", "line_option", "ref", "regions"}

\* register_highlighters: the factory registered under each name
registry(name, n, valid) ==
    CASE name \in {"number_lines", "show_matching", "show_whitespaces"}
             -> SimpleHighlighterFactory(name, n, valid)
      [] name = "fill" -> fill_factory(n, valid)
      [] name = "regex" -> highlight_regex_factory(n, valid)
      [] name = "regex_option" -> highlight_regex_option_factory(n, valid)
      [] name = "search" -> highlight_search_factory(n, valid)
      [] name = "group" -> highlighter_group_factory(n, valid)
      [] name = "flag_lines" -> flag_lines_factory(n, valid)
      [] name = "line_option" -> highlight_line_option_factory(n, valid)
      [] name = "ref" -> reference_factory(n, valid)
      [] name = "regions" -> regions_factory(n, valid)

(* ---------------------------------------------------------------------- *)
(* Specification: calls of the registered factories                       *)
(* ---------------------------------------------------------------------- *)
FactoryInit ==
    /\ hist = [op |-> "none", name |-> "", n |-> 0, valid |-> TRUE,
               result |-> HighlighterAndId("none")]
    /\ pc = "factory"
    /\ buffer = [lines |-> <<>>, timestamp |-> 0] /\ modifs = <<>>
    /\ MatchIdle /\ WordIdle /\ RegionIdle /\ DisplayIdle /\ ExtIdle

CallFactory ==
    /\ pc = "factory"
    /\ \E name \in FactoryNames, n \in 0..MaxParams, valid \in BOOLEAN :
        hist' = [op |-> "create", name |-> name, n |-> n, valid |-> valid,
                 result |-> registry(name, n, valid)]
    /\ UNCHANGED <<bufVars, matchVars, wordVars, regionVars, displayVars, extVars, pc>>

FactoryNext == CallFactory

SpecFactory == FactoryInit /\ [][FactoryNext]_vars

\* the parameter counts each highlighter type accepts
AcceptedCount(name, n) ==
    CASE name \in {"number_lines", "show_matching", "show_whitespaces", "search"} -> n = 0
      [] name \in {"fill", "group", "ref"} -> n = 1
      [] name \in {"regex_option", "line_option", "flag_lines"} -> n = 2
      [] name = "regex" -> n >= 2
      [] name = "regions" -> n >= 5 /\ (n - 1) % 4 = 0

\* C14: a factory called with a parameter count it does not accept raises
\* an error and returns no highlighter.
C14_WrongCountRaises ==
    (hist.op = "create" /\ ~AcceptedCount(hist.name, hist.n)) =>
        /\ hist.result.threw
        /\ hist.result.highlighter = "none"

(* ---------------------------------------------------------------------- *)
(* BufferSideCache and RegexHighlighter (highlighters.cc:184-271)          *)
(* ---------------------------------------------------------------------- *)
MaxRegexEdits == 2

\* the lines kept around the displayed range when the cache is rebuilt
CacheMargin == 10

\* an empty Value, and Value(T{}) for T = RegexHighlighter::Cache
NoValue == [set |-> FALSE]
NewRegexCache == [set |-> TRUE, m_range |-> <<0, 0>>, m_timestamp |-> 0, m_matches |-> <<>>]

\* the mutation of get: the cache is created anew at every access
BufferSideCacheGetFresh(vals, m_id) == [vals EXCEPT ![m_id] = NewRegexCache]

\* BufferSideCache::get: buffer.values() after the access; the cache
\* returned is its entry m_id
BufferSideCacheGet(vals, m_id) ==
    [vals EXCEPT ![m_id] = IF @ = NoValue THEN NewRegexCache ELSE @]

\* the matches RegexIterator finds in the lines first .. last, as pairs
\* of coordinates (capture 0)
RegexIteratorMatches(buf, first, last, re) ==
    LET found == Flatten([k \in 1..(last - first + 1) |-> LineMatches(buf, first + k - 1, re)])
    IN [k \in 1..Len(found) |-> <<begin_coord(found[k]), end_coord(found[k])>>]

\* the mutation of the test below: the lines of the window are not compared
CacheCoversTimestampOnly(c, buf, first_line, last_line) == buf.timestamp = c.m_timestamp

\* the test of update_cache_ifn for returning the cache as it is
CacheCovers(c, buf, first_line, last_line) ==
    /\ buf.timestamp = c.m_timestamp
    /\ first_line >= c.m_range[1]
    /\ last_line <= c.m_range[2]

\* RegexHighlighter::update_cache_ifn: [cache, threw]; the regex engine
\* raises an error after fail matches when fail >= 0
RegexUpdateCacheIfn(c, buf, range, re, fail) ==
    LET first_line == range[1][1]
        last_line == Min(line_count(buf) - 1, range[2][1])
    IN IF CacheCovers(c, buf, first_line, last_line)
       THEN [cache |-> c, threw |-> FALSE, scanned |-> FALSE]
       ELSE LET r == <<Max(0, first_line - CacheMargin),
                       Min(line_count(buf) - 1, last_line + CacheMargin)>>
                all == RegexIteratorMatches(buf, r[1], r[2], re)
            IN [cache |-> [set |-> TRUE, m_range |-> r, m_timestamp |-> buf.timestamp,
                           m_matches |-> IF fail >= 0 THEN SubSeq(all, 1, Min(fail, Len(all)))
                                         ELSE all],
                threw |-> fail >= 0,
                scanned |-> TRUE]

\* the loop over cache.m_matches (the quantifier binds the display after
\* each highlight_range to its value)
RECURSIVE HighlightMatches(_, _, _, _)
HighlightMatches(lines, ms, k, face) ==
    IF k > Len(ms) THEN lines
    ELSE CHOOSE res \in {HighlightMatches(next, ms, k + 1, face) :
                             next \in {highlight_range(lines, ms[k][1], ms[k][2], TRUE,
                                                       FaceFunctor(face))}} :
             TRUE

\* RegexHighlighter::operator(): [display, values, escaped, scanned, got];
\* nothing in it catches what update_cache_ifn throws
RegexHighlighterCall(h, fl, lines, buf, vals, fail) ==
    IF fl /= "Highlight"
    THEN [display |-> lines, values |-> vals, escaped |-> FALSE, scanned |-> FALSE,
          got |-> NoValue]
    ELSE LET got == BufferSideCacheGet(vals, h.m_id)
             r == RegexUpdateCacheIfn(got[h.m_id], buf, display_range(lines), h.m_regex, fail)
         IN [display |-> IF r.threw THEN lines
                         ELSE HighlightMatches(lines, r.cache.m_matches, 1, h.m_faces),
             values |-> [got EXCEPT ![h.m_id] = r.cache],
             escaped |-> r.threw,
             scanned |-> r.scanned,
             got |-> got[h.m_id]]

(* ---------------------------------------------------------------------- *)
(* Specification: regex highlighters invoked on two buffers under edits   *)
(* ---------------------------------------------------------------------- *)
BufferNames == {"b1", "b2"}
HighlighterNames == {"h1", "h2"}
ValueIds == 0..(Cardinality(HighlighterNames) - 1)
NotConstructed == [m_id |-> -1, m_regex |-> EmptyRegex, m_faces |-> DefaultFace]
RegexContentSet == {<<(<<"a", "b", "\n">>)>>,
                    <<(<<"b", "a", "\n">>), (<<"a", "a", "\n">>)>>}
EngineFailures == {-1, 1}

\* hist of an invocation: the highlighter, the buffer, whether the engine
\* raised an error, whether an error left the invocation, whether the
\* buffer was scanned and the cache get returned
CacheInit ==
    /\ buffers = [b \in BufferNames |-> [lines |-> <<(<<"a", "b", "\n">>)>>, timestamp |-> 0]]
    /\ values = [b \in BufferNames |-> [id \in ValueIds |-> NoValue]]
    /\ next_id = 0
    /\ highlighters = [h \in HighlighterNames |-> NotConstructed]
    /\ hist = [op |-> "none"]
    /\ pc = "cache"
    /\ buffer = [lines |-> <<>>, timestamp |-> 0] /\ modifs = <<>>
    /\ MatchIdle /\ WordIdle /\ RegionIdle /\ DisplayIdle /\ RegistryIdle /\ RefIdle /\ LateIdle

\* RegexHighlighter::RegexHighlighter, with the BufferSideCache it owns
NewRegexHighlighter ==
    /\ pc = "cache"
    /\ \E h \in HighlighterNames :
        /\ highlighters[h] = NotConstructed
        /\ highlighters' = [highlighters EXCEPT
                               ![h] = [m_id |-> next_id, m_regex |-> Lit("a"), m_faces |-> RangeFace]]
    /\ next_id' = next_id + 1
    /\ hist' = [op |-> "new"]
    /\ UNCHANGED <<bufVars, matchVars, wordVars, regionVars, displayVars, registryVars, lateVars,
                   refVars, buffers, values, pc>>

EditNamedBuffer ==
    /\ pc = "cache"
    /\ \E b \in BufferNames, content \in RegexContentSet :
        /\ buffers["b1"].timestamp + buffers["b2"].timestamp < MaxRegexEdits
        /\ content /= buffers[b].lines
        /\ buffers' = [buffers EXCEPT ![b] = [lines |-> content, timestamp |-> @.timestamp + 1]]
    /\ hist' = [op |-> "edit"]
    /\ UNCHANGED <<bufVars, matchVars, wordVars, regionVars, displayVars, registryVars, lateVars,
                   refVars, values, next_id, highlighters, pc>>

\* one pass of a regex highlighter over the window of a buffer
InvokeRegexHighlighter ==
    /\ pc = "cache"
    /\ \E i \in HighlighterNames, b \in BufferNames, fl \in {"Highlight", "MoveOnly"},
          fail \in EngineFailures :
        /\ highlighters[i] /= NotConstructed
        /\ \E r \in {RegexHighlighterCall(highlighters[i], fl,
                                           WindowDisplay(0, line_count(buffers[b]) - 1),
                                           buffers[b], values[b], fail)} :
           /\ fail >= 0 => r.scanned
           /\ display' = r.display
           /\ flags' = fl
           /\ values' = [values EXCEPT ![b] = r.values]
           /\ hist' = [op |-> "regex", h |-> i, b |-> b, raised |-> fail >= 0,
                       escaped |-> r.escaped, scanned |-> r.scanned, got |-> r.got]
    /\ UNCHANGED <<bufVars, matchVars, wordVars, regionVars, registryVars, lateVars, refVars,
                   buffers, next_id, highlighters, pc>>

CacheNext == NewRegexHighlighter \/ EditNamedBuffer \/ InvokeRegexHighlighter

SpecCache == CacheInit /\ [][CacheNext]_vars

\* C15: when the regex engine raises an error while the highlighter scans
\* the buffer, the error does not leave the invocation and the display
\* buffer is as it was before the invocation.
C15_RegexErrorContained ==
    (hist.op = "regex" /\ hist.raised) =>
        /\ ~hist.escaped
        /\ display = WindowDisplay(0, line_count(buffers[hist.b]) - 1)

\* C20: highlighters constructed separately have distinct slot ids; an
\* invocation of highlighter H on buffer B, rebuild included, changes no
\* value of another buffer and no value of B under another id; the cache H
\* gets on its first access to B is the empty one, and on a later access
\* the one its previous access left.
C20_Step ==
    hist'.op = "regex" =>
        LET id == highlighters[hist'.h].m_id IN
        /\ \A b \in BufferNames, other \in ValueIds :
               (b /= hist'.b \/ other /= id) => values'[b][other] = values[b][other]
        /\ flags' = "Highlight" =>
               hist'.got = IF values[hist'.b][id] = NoValue THEN NewRegexCache
                           ELSE values[hist'.b][id]

C20_DistinctIds ==
    \A h1, h2 \in HighlighterNames :
        (h1 /= h2 /\ highlighters'[h1] /= NotConstructed /\ highlighters'[h2] /= NotConstructed)
            => highlighters'[h1].m_id /= highlighters'[h2].m_id

C20_CachesIsolated ==
    [][pc = "cache" => C20_Step /\ C20_DistinctIds]_vars

\* a highlighter has just rebuilt its cache on an edited buffer, starting
\* from the cache its earlier access had left there, while the other
\* highlighter has a cache on that buffer and it has one on the other buffer
C20_Witness ==
    /\ pc = "cache"
    /\ hist.op = "regex"
    /\ hist.scanned
    /\ hist.got /= NewRegexCache
    /\ values[hist.b][highlighters[hist.h].m_id].m_timestamp > hist.got.m_timestamp
    /\ \A b \in BufferNames, id \in ValueIds : values[b][id] /= NoValue

(* ---------------------------------------------------------------------- *)
(* The ref highlighter (highlighters.cc:687-708)                           *)
(* ---------------------------------------------------------------------- *)
Undefined == [kind |-> "undefined"]

\* DefinedHighlighters::get_highlighter(name): the highlighter defined
\* under the name; group_not_found is thrown when there is none
get_highlighter(defs, name) ==
    IF defs[name] = Undefined
    THEN [thrown |-> "group_not_found", highlighter |-> Undefined]
    ELSE [thrown |-> "none", highlighter |-> defs[name]]

\* the mutation of the ref highlighter: group_not_found is not caught
ReferenceCallNoCatch(name, defs, fl, lines, buf) ==
    LET found == get_highlighter(defs, name)
    IN IF found.thrown = "group_not_found"
       THEN [display |-> lines, escaped |-> TRUE]
       ELSE [display |-> RunChild(found.highlighter, fl, lines, buf), escaped |-> FALSE]

\* the highlighter reference_factory returns, invoked: [display, escaped]
ReferenceCall(name, defs, fl, lines, buf) ==
    LET found == get_highlighter(defs, name)
    IN IF found.thrown = "group_not_found"
       THEN [display |-> lines, escaped |-> FALSE]
       ELSE [display |-> RunChild(found.highlighter, fl, lines, buf), escaped |-> FALSE]

(* ---------------------------------------------------------------------- *)
(* Specification: ref highlighters and the definitions they point to      *)
(* ---------------------------------------------------------------------- *)
RefNames == {"x", "y"}
RefTargets == {[kind |-> "fill", face |-> FillFace], [kind |-> "number_lines"],
               [kind |-> "expand_tabs"]}

\* hist of the refs: the last call, the name it was about, what the factory
\* returned, whether an error left the invocation, the display before it,
\* the names for which a ref was created while they were undefined and those
\* whose ref was invoked while they were undefined
RefInit ==
    /\ buffer \in DisplayBufferSet
    /\ modifs = <<>>
    /\ defined = [n \in RefNames |-> Undefined]
    /\ refs = {}
    /\ display = WindowDisplay(0, line_count(buffer) - 1)
    /\ flags \in {"Highlight", "MoveOnly"}
    /\ hist = [op |-> "none", name |-> "", result |-> HighlighterAndId("none"),
               escaped |-> FALSE, before |-> <<>>,
               made_undefined |-> {}, ran_undefined |-> {}]
    /\ pc = "ref"
    /\ MatchIdle /\ WordIdle /\ RegionIdle /\ RegistryIdle /\ CacheIdle /\ LateIdle

\* addhl ref <name>: reference_factory with the one parameter
CreateRef ==
    /\ pc = "ref"
    /\ \E name \in RefNames \ refs :
        /\ refs' = IF reference_factory(1, TRUE).threw THEN refs ELSE refs \cup {name}
        /\ hist' = [hist EXCEPT !.op = "create", !.name = name,
                       !.result = reference_factory(1, TRUE),
                       !.made_undefined = IF defined[name] = Undefined
                                          THEN @ \cup {name} ELSE @]
    /\ UNCHANGED <<bufVars, matchVars, wordVars, regionVars, displayVars, registryVars, lateVars,
                   cacheVars, defined, pc>>

\* a highlighter is added to DefinedHighlighters under a name
DefineHighlighter ==
    /\ pc = "ref"
    /\ \E name \in RefNames, target \in RefTargets :
        /\ defined[name] = Undefined
        /\ defined' = [defined EXCEPT ![name] = target]
        /\ hist' = [hist EXCEPT !.op = "define", !.name = name]
    /\ UNCHANGED <<bufVars, matchVars, wordVars, regionVars, displayVars, registryVars, lateVars,
                   cacheVars, refs, pc>>

\* one pass of a ref highlighter over the window display of the buffer
InvokeRef ==
    /\ pc = "ref"
    /\ \E name \in refs :
        \E r \in {ReferenceCall(name, defined, flags,
                                WindowDisplay(0, line_count(buffer) - 1), buffer)} :
            /\ display' = r.display
            /\ hist' = [hist EXCEPT !.op = "invoke", !.name = name,
                           !.escaped = r.escaped,
                           !.before = WindowDisplay(0, line_count(buffer) - 1),
                           !.ran_undefined = IF defined[name] = Undefined
                                             THEN @ \cup {name} ELSE @]
    /\ UNCHANGED <<bufVars, flags, matchVars, wordVars, regionVars, registryVars, lateVars,
                   cacheVars, refVars, pc>>

RefNext == CreateRef \/ DefineHighlighter \/ InvokeRef

SpecRef == RefInit /\ [][RefNext]_vars

\* C16: creating a ref for an undefined name succeeds; invoking it while
\* the name is undefined lets no error out and leaves the display as it
\* was; once a highlighter is defined under the name, invoking the same ref
\* gives what that highlighter gives.
C16_RefDeferred ==
    /\ hist.op = "create" =>
           /\ ~hist.result.threw
           /\ hist.result.highlighter = "ref"
           /\ hist.name \in refs
    /\ hist.op = "invoke" =>
           /\ ~hist.escaped
           /\ defined[hist.name] = Undefined => display = hist.before
           /\ defined[hist.name] /= Undefined =>
                  display = RunChild(defined[hist.name], flags, hist.before, buffer)

\* a ref created and invoked while its name was undefined has just been
\* invoked again after the definition, and the display changed
C16_Witness ==
    /\ pc = "ref"
    /\ hist.op = "invoke"
    /\ hist.name \in hist.made_undefined
    /\ hist.name \in hist.ran_undefined
    /\ defined[hist.name] /= Undefined
    /\ display /= hist.before

(* ---------------------------------------------------------------------- *)
(* Specification: the line-number atom for buffers of given line counts   *)
(* ---------------------------------------------------------------------- *)
MaxSmallLineCount == 13

LineCountSet == 1..MaxSmallLineCount \cup {99, 100, 101, 999, 1000, 999999, 1000000}

NumberedLines(last_line) ==
    IF last_line <= MaxSmallLineCount THEN 0..(last_line - 1)
    ELSE {0, 5, 11, last_line - 1}

NumberInit ==
    /\ hist = [op |-> "none", line_count |-> 1, line |-> 0, atom |-> TextAtom(<<>>, DefaultFace)]
    /\ pc = "number"
    /\ buffer = [lines |-> <<>>, timestamp |-> 0] /\ modifs = <<>>
    /\ MatchIdle /\ WordIdle /\ RegionIdle /\ DisplayIdle /\ ExtIdle

\* the body of the loop of show_line_numbers for one display line
NumberLine ==
    /\ pc = "number"
    /\ \E last_line \in LineCountSet :
        \E line \in NumberedLines(last_line) :
            hist' = [op |-> "number", line_count |-> last_line, line |-> line,
                     atom |-> LineNumberAtom(last_line, line)]
    /\ UNCHANGED <<bufVars, matchVars, wordVars, regionVars, displayVars, extVars, pc>>

NumberNext == NumberLine

SpecLineNumbers == NumberInit /\ [][NumberNext]_vars

\* the least k with 10^k >= n
RECURSIVE CeilLog10(_)
CeilLog10(n) == IF n <= 1 THEN 0 ELSE 1 + CeilLog10((n + 9) \div 10)

\* the number n right-aligned and space-padded in a field of the given width
RightAligned(field, width, n) ==
    /\ Len(field) = width
    /\ Len(Digits(n)) <= width
    /\ SubSeq(field, width - Len(Digits(n)) + 1, width) = Digits(n)
    /\ \A i \in 1..(width - Len(Digits(n))) : field[i] = " "

\* C18: the text of the line-number atom is the line number right-aligned
\* and space-padded in a field of width ceil(log10(line_count)), followed
\* by the separator.
C18_WidthIsCeilLog10 ==
    hist.op = "number" =>
        LET text == hist.atom.text
            N == CeilLog10(hist.line_count)
        IN /\ Len(text) = N + Len(BarBytes)
           /\ RightAligned(SubSeq(text, 1, N), N, hist.line + 1)
           /\ SubSeq(text, N + 1, Len(text)) = BarBytes

\* C18, with the width the number of decimal digits of line_count and the
\* text cut to the 9 bytes the buffer holds: the separator is whole as long
\* as line_count has at most 6 digits; for a 12-line buffer the atoms of
\* lines 0, 5, 11 are " 1", " 6", "12" followed by the separator.
C18_WidthIsDigitsOfLineCount ==
    hist.op = "number" =>
        LET text == hist.atom.text
            N == Len(Digits(hist.line_count))
            kept == Min(N, SnprintfSize - 1)
        IN /\ hist.atom.type = "Text"
           /\ Len(text) = Min(N + Len(BarBytes), SnprintfSize - 1)
           /\ N <= SnprintfSize - 1 => RightAligned(SubSeq(text, 1, N), N, hist.line + 1)
           /\ SubSeq(text, kept + 1, Len(text)) = SubSeq(BarBytes, 1, Len(text) - kept)
           /\ hist.line_count < 1000000 => SubSeq(text, N + 1, Len(text)) = BarBytes
           /\ hist.line_count = 12 =>
                  /\ hist.line = 0 => text = <<" ", "1">> \o BarBytes
                  /\ hist.line = 5 => text = <<" ", "6">> \o BarBytes
                  /\ hist.line = 11 => text = <<"1", "2">> \o BarBytes

\* the atom of the last line of a 10-line buffer: two columns, where
\* ceil(log10(10)) is 1
C18_Witness ==
    /\ pc = "number"
    /\ hist.op = "number"
    /\ hist.line_count = 10
    /\ hist.line = 9
    /\ hist.atom.text = <<"1", "0">> \o BarBytes

(* ---------------------------------------------------------------------- *)
(* Specification: the highlighters on buffers with tabs at column 0 and   *)
(* after another tab                                                       *)
(* ---------------------------------------------------------------------- *)
TabBufferSet ==
    {[lines |-> <<(<<"\t", "\t", "a", "\n">>)>>, timestamp |-> 1],
     [lines |-> <<(<<"a", "\t", "\n">>), (<<"\t", "a", "\n">>)>>, timestamp |-> 1]}

TabInit ==
    /\ buffer \in TabBufferSet
    /\ modifs = <<>>
    /\ \E first \in 0..(line_count(buffer) - 1), last \in 0..(line_count(buffer) - 1) :
           /\ first <= last
           /\ (first = 0 \/ last = line_count(buffer) - 1)
           /\ display = WindowDisplay(first, last)
    /\ flags \in {"Highlight", "MoveOnly"}
    /\ hist = [op |-> [kind |-> "none"], before |-> display, orig |-> display,
               twice |-> FALSE, n |-> 0]
    /\ pc = "display"
    /\ MatchIdle /\ WordIdle /\ RegionIdle /\ ExtIdle

SpecTabs == TabInit /\ [][DisplayNext]_vars

\* the atoms of the given type that cover the buffer position x
AtomsAt(atoms, type, x) ==
    {i \in 1..Len(atoms) : /\ atoms[i].type = type
                           /\ x \in CoordsIn(buffer, atoms[i].begin, atoms[i].end)}

\* the positions of a line of the buffer
LineCoords(l) == {<<l, c>> : c \in 0..(Len(BufLine(buffer, l)) - 1)}
AllCoords == UNION {LineCoords(l) : l \in 0..(line_count(buffer) - 1)}

\* the tabs that are inside a BufferRange atom
TabsInBufferRange(atoms) ==
    {x \in AllCoords : CharAt(buffer, x) = "\t" /\ AtomsAt(atoms, "BufferRange", x) /= {}}

OfType(atoms, type) == SelectSeq(atoms, LAMBDA a : a.type = type)

\* C19: after expand_tabulations every tab that was inside a BufferRange
\* atom is alone in a ReplacedBufferRange atom whose text is
\* tabstop - (column mod tabstop) spaces, column being the tab's display
\* column (tabstop spaces at column 0, always between 1 and tabstop); no
\* BufferRange atom contains a tab any more; nothing else is replaced: the
\* other positions stay in BufferRange atoms with their face, and the
\* ReplacedBufferRange and Text atoms that were there are unchanged.
C19_TabsExpanded ==
    (pc = "display" /\ hist.op.kind = "expand_tabulations") =>
        /\ Len(display) = Len(hist.before)
        /\ \A k \in 1..Len(display) :
            LET before == hist.before[k]
                after == display[k]
                tabs == TabsInBufferRange(before)
            IN /\ \A x \in tabs :
                      \E j \in 1..Len(after) :
                          /\ after[j].type = "ReplacedBufferRange"
                          /\ after[j].begin = x
                          /\ after[j].end = NextCoord(buffer, x)
                          /\ after[j].text
                               = Repeat(" ", tabstop - (get_column(buffer, tabstop, x) % tabstop))
                          /\ Len(after[j].text) \in 1..tabstop
                          /\ x[2] = 0 => Len(after[j].text) = tabstop
               /\ TabsInBufferRange(after) = {}
               /\ \A x \in AllCoords \ tabs :
                      \A i \in AtomsAt(before, "BufferRange", x) :
                          \E j \in AtomsAt(after, "BufferRange", x) :
                              after[j].face = before[i].face
               /\ SelectSeq(OfType(after, "ReplacedBufferRange"), LAMBDA a : a.begin \notin tabs)
                    = OfType(before, "ReplacedBufferRange")
               /\ OfType(after, "Text") = OfType(before, "Text")

\* expand_tabulations has just replaced a tab at column 0 by tabstop spaces
\* and a tab at column 1 by one space less, on a display whose atoms had
\* been split by an earlier highlighter
C19_Witness ==
    /\ pc = "display"
    /\ hist.op.kind = "expand_tabulations"
    /\ hist.n = 2
    /\ \E k \in 1..Len(hist.before) : Len(hist.before[k]) > 1
    /\ \E k \in 1..Len(display) : \E j \in 1..Len(display[k]) :
           /\ display[k][j].type = "ReplacedBufferRange"
           /\ display[k][j].begin[2] = 0
           /\ display[k][j].text = Repeat(" ", tabstop)
    /\ \E k \in 1..Len(display) : \E j \in 1..Len(display[k]) :
           /\ display[k][j].type = "ReplacedBufferRange"
           /\ display[k][j].begin[2] = 1
           /\ display[k][j].text = Repeat(" ", tabstop - 1)

(* ---------------------------------------------------------------------- *)
(* Specification: highlight_range with a function that marks the atoms it *)
(* is given, on display buffers other highlighters have split and replaced *)
(* ---------------------------------------------------------------------- *)
TallyRangeSet(buf) ==
    DisplayRangeSet(buf)
        \cup {r \in {<<(<<0, 1>>), (<<0, 3>>)>>} : r[2][2] < Len(BufLine(buf, r[2][1]))}

TallyRange ==
    /\ CanInvoke
    /\ \E r \in TallyRangeSet(buffer), skip_replaced \in BOOLEAN :
           /\ display' = highlight_range(display, r[1], r[2], skip_replaced, Tally)
           /\ hist' = Invoked([kind |-> "tally_range", range |-> r,
                               skip_replaced |-> skip_replaced])
    /\ UNCHANGED <<bufVars, flags, matchVars, wordVars, regionVars, pc, extVars>>

RangeNext ==
    \/ ExpandTabulations \/ ShowWhitespaces \/ ShowLineNumbers
    \/ HighlightRange \/ TallyRange

SpecRange == DisplayInit /\ [][RangeNext]_vars

\* x lies in [b, e)
InRange(x, b, e) == CoordLE(b, x) /\ CoordLT(x, e)

\* the atom meets the non-empty range [b, e)
Overlaps(a, b, e) == CoordLT(b, e) /\ CoordLT(a.begin, e) /\ CoordLT(b, a.end)

\* the atom lies inside [b, e)
Within(a, b, e) == CoordLE(b, a.begin) /\ CoordLE(a.end, e)

\* highlight_range hands the part of atom a that holds position x to func
Passed(a, x, b, e, skip_replaced) ==
    \/ a.type = "BufferRange" /\ InRange(x, b, e)
    \/ a.type = "ReplacedBufferRange" /\ ~skip_replaced /\ Overlaps(a, b, e)

\* C21: highlight_range(display_buffer, begin, end, skip_replaced, f) with
\* an f that appends a mark to the atom it is given: every position of a
\* BufferRange atom inside [begin, end) ends in one atom that lies inside
\* [begin, end) and carries exactly one more mark; every position outside
\* ends in an atom outside [begin, end) with the marks it had; a
\* ReplacedBufferRange atom gets no mark when skip_replaced holds (one
\* mark, whole, when it does not and the atom is in the range); Text atoms
\* are unchanged; with begin = end or a range that does not meet the
\* display buffer nothing changes.
C21_FuncOncePerPartInside ==
    (pc = "display" /\ hist.op.kind = "tally_range") =>
        LET b == hist.op.range[1]
            e == hist.op.range[2]
            skip == hist.op.skip_replaced
            range == display_range(hist.before)
        IN /\ Len(display) = Len(hist.before)
           /\ (b = e \/ CoordLE(e, range[1]) \/ CoordLE(range[2], b))
                  => display = hist.before
           /\ \A k \in 1..Len(display) :
               LET before == hist.before[k]
                   after == display[k]
               IN /\ OfType(after, "Text") = OfType(before, "Text")
                  /\ \A x \in AllCoords : \A i \in 1..Len(before) :
                      (has_buffer_range(before[i])
                          /\ x \in CoordsIn(buffer, before[i].begin, before[i].end)) =>
                        LET at == {j \in 1..Len(after) :
                                      /\ has_buffer_range(after[j])
                                      /\ x \in CoordsIn(buffer, after[j].begin, after[j].end)}
                        IN /\ Cardinality(at) = 1
                           /\ \A j \in at :
                                 /\ after[j].type = before[i].type
                                 /\ after[j].face = before[i].face
                                 /\ IF Passed(before[i], x, b, e, skip)
                                    THEN /\ after[j].text = Append(before[i].text, "*")
                                         /\ Within(after[j], b, e)
                                    ELSE /\ after[j].text = before[i].text
                                         /\ after[j].type = "BufferRange"
                                                => ~Overlaps(after[j], b, e)

\* highlight_range has marked a replaced atom inside the range and the left
\* part of a BufferRange atom that straddled the end of the range
C21_Witness ==
    /\ pc = "display" /\ hist.op.kind = "tally_range"
    /\ ~hist.op.skip_replaced
    /\ \E k \in 1..Len(display) :
           /\ \E i \in 1..Len(hist.before[k]) :
                  /\ hist.before[k][i].type = "ReplacedBufferRange"
                  /\ Overlaps(hist.before[k][i], hist.op.range[1], hist.op.range[2])
           /\ \E i \in 1..Len(hist.before[k]) :
                  /\ hist.before[k][i].type = "BufferRange"
                  /\ CoordLT(hist.before[k][i].begin, hist.op.range[2])
                  /\ CoordLT(hist.op.range[2], hist.before[k][i].end)
           /\ Len(display[k]) = Len(hist.before[k]) + 1
           /\ \E j \in 1..Len(display[k]) :
                  display[k][j].type = "BufferRange" /\ display[k][j].text = <<"*">>

\* what DisplayLine::split requires of its arguments
SplitPrecondition(call) ==
    /\ call.atom.type = "BufferRange"
    /\ CoordLT(call.atom.begin, call.pos)
    /\ CoordLT(call.pos, call.atom.end)

\* C22: every call of split that apply_highlighter makes while it carves
\* the sub-display is on a BufferRange atom and at a position strictly
\* inside the atom's range
C22_SplitStrictlyInsideBufferRange ==
    (pc = "display" /\ hist.op.kind = "apply_highlighter") =>
        \A k \in SelectedLines(hist.before, hist.op.range[1], hist.op.range[2]) :
            LET calls == CarveLine(hist.before[k], hist.op.range[1], hist.op.range[2]).calls
            IN \A c \in 1..Len(calls) : SplitPrecondition(calls[c])

(* ---------------------------------------------------------------------- *)
(* Specification: apply_highlighter on a line that holds a codepoint of   *)
(* two bytes, with ranges that begin or end between the two bytes         *)
(* ---------------------------------------------------------------------- *)
CarveBufferSet ==
    {[lines |-> <<(<<"a", LeadByte, ContByte, " ", "\n">>)>>, timestamp |-> 1],
     [lines |-> <<(<<LeadByte, ContByte, "\n">>), (<<"a", "\t", "\n">>)>>, timestamp |-> 1]}

CarveRangeSet(buf) ==
    {r \in {<<(<<0, 2>>), (<<0, 4>>)>>, <<(<<0, 0>>), (<<0, 2>>)>>,
            <<(<<0, 1>>), (<<0, 3>>)>>, <<(<<0, 0>>), (<<0, 1>>)>>,
            <<(<<0, 1>>), (<<1, 0>>)>>, <<(<<0, 1>>), (<<1, 2>>)>>} :
        /\ r[2][1] <= line_count(buf)
        /\ r[2][1] < line_count(buf) => r[2][2] < Len(BufLine(buf, r[2][1]))}

CarveInit ==
    /\ buffer \in CarveBufferSet
    /\ modifs = <<>>
    /\ display = WindowDisplay(0, line_count(buffer) - 1)
    /\ flags \in {"Highlight", "MoveOnly"}
    /\ hist = [op |-> [kind |-> "none"], before |-> display, orig |-> display,
               twice |-> FALSE, n |-> 0]
    /\ pc = "display"
    /\ MatchIdle /\ WordIdle /\ RegionIdle /\ ExtIdle

ApplyOnRange ==
    /\ CanInvoke
    /\ \E r \in CarveRangeSet(buffer), child \in {[kind |-> "none"],
                                                  [kind |-> "fill", face |-> FillFace]} :
           /\ display' = apply_highlighter(display, r[1], r[2], child, flags, buffer)
           /\ hist' = Invoked([kind |-> "apply_highlighter", range |-> r, child |-> child])
    /\ UNCHANGED <<bufVars, flags, matchVars, wordVars, regionVars, pc, extVars>>

CarveNext == ExpandUnprintable \/ ShowWhitespaces \/ HighlightRange \/ ApplyOnRange

SpecCarve == CarveInit /\ [][CarveNext]_vars

\* the atom is among the atoms of a sequence
AtomIn(a, atoms) == \E j \in 1..Len(atoms) : atoms[j] = a

\* C23: when apply_highlighter carves the sub-display for [begin, end), a
\* ReplacedBufferRange atom is in the sub-display only if its range lies
\* inside [begin, end), and a ReplacedBufferRange atom that straddles begin
\* or end stays in the primary display line
C23_StraddlingReplacedStays ==
    (pc = "display" /\ hist.op.kind = "apply_highlighter") =>
        LET b == hist.op.range[1]
            e == hist.op.range[2]
        IN \A k \in SelectedLines(hist.before, b, e) :
               LET carved == CarveLine(hist.before[k], b, e)
               IN \A i \in 1..Len(hist.before[k]) :
                      LET a == hist.before[k][i]
                      IN a.type = "ReplacedBufferRange" =>
                             /\ AtomIn(a, carved.region) => Within(a, b, e)
                             /\ (Overlaps(a, b, e) /\ ~Within(a, b, e))
                                    => (AtomIn(a, carved.line) /\ ~AtomIn(a, carved.region))

(* ---------------------------------------------------------------------- *)
(* Specification: find_next_begin on the matches of several regions       *)
(* ---------------------------------------------------------------------- *)
NextBeginDefSet ==
    {<<Region("first", Lit("q"), Lit("q"), EmptyRegex),
       Region("second", Lit("q"), Lit("}"), EmptyRegex)>>,
     <<Region("code", Lit("{"), Lit("}"), Lit("{")),
       Region("str", Lit("q"), Lit("q"), EmptyRegex)>>,
     <<Region("in", Behind("q"), Ahead("q"), EmptyRegex),
       Region("esc", Lit("e"), Lit("q"), EmptyRegex),
       Region("close", Lit("}"), Lit("q"), EmptyRegex)>>}

\* the positions find_next_begin is called with: before the buffer, and
\* every coordinate of a line, the one after its last byte included
SearchPositions(buf) ==
    {<<-1, 0>>} \cup UNION {{<<l, c>> : c \in 0..Len(BufLine(buf, l))} :
                               l \in 0..(line_count(buf) - 1)}

NextBeginInit ==
    /\ buffer \in BuffersOf(RegionLineSet, MaxRegionLines)
    /\ modifs = <<>>
    /\ m_regions \in NextBeginDefSet
    /\ cache = [timestamp |-> 0,
                matches |-> [i \in 1..Len(m_regions) |->
                                RegionFindMatches(buffer, m_regions[i])],
                regions |-> <<>>]
    /\ begin = [first |-> 1, second |-> 1]
    /\ returned = [how |-> "none", regions |-> <<>>]
    /\ hist = [pos |-> <<-1, 0>>, called |-> FALSE]
    /\ pc = "next_begin"
    /\ MatchIdle /\ WordIdle /\ DisplayIdle /\ ExtIdle

CallFindNextBegin ==
    /\ pc = "next_begin"
    /\ \E pos \in SearchPositions(buffer) :
           /\ begin' = find_next_begin(cache, pos)
           /\ hist' = [pos |-> pos, called |-> TRUE]
    /\ UNCHANGED <<bufVars, m_regions, cache, returned, pc, matchVars, wordVars,
                   displayVars, extVars>>

NextBeginNext == CallFindNextBegin

SpecNextBegin == NextBeginInit /\ [][NextBeginNext]_vars

\* the begin matches of all regions at or after pos: <<region, index>>
BeginsFrom(c, pos) ==
    UNION {{<<i, k>> : k \in {k \in 1..Len(c.matches[i].begin_matches) :
                                  CoordLE(pos, begin_coord(c.matches[i].begin_matches[k]))}} :
              i \in 1..Len(c.matches)}

\* C24: find_next_begin(cache, pos) returns a begin match at or after pos
\* whose begin coordinate is the smallest one over all regions; among the
\* regions that have a begin match at that coordinate it returns the one
\* defined first, and in that region the first such match; when no region
\* has a begin match at or after pos it returns the end of the begin
\* matches of region 0, the value the resolution loop stops on.
C24_NextBeginSmallestFirstDefined ==
    (pc = "next_begin" /\ hist.called) =>
        LET S == BeginsFrom(cache, hist.pos)
            coord(p) == begin_coord(cache.matches[p[1]].begin_matches[p[2]])
        IN IF S = {} THEN begin = EndSentinel(cache)
           ELSE /\ <<begin.first, begin.second>> \in S
                /\ begin # EndSentinel(cache)
                /\ \A p \in S :
                       /\ CoordLE(coord(<<begin.first, begin.second>>), coord(p))
                       /\ coord(p) = coord(<<begin.first, begin.second>>)
                              => (begin.first <= p[1]
                                  /\ (p[1] = begin.first => begin.second <= p[2]))

\* two regions have a begin match at the same smallest coordinate, after
\* the start of the buffer, and the one defined first is returned
C24_Witness ==
    /\ pc = "next_begin" /\ hist.called
    /\ CoordLT(<<0, 0>>, hist.pos)
    /\ begin.first = 1
    /\ begin.second > 1
    /\ begin.second <= Len(cache.matches[1].begin_matches)
    /\ \E p \in BeginsFrom(cache, hist.pos) :
           /\ p[1] > 1
           /\ begin_coord(cache.matches[p[1]].begin_matches[p[2]])
                = begin_coord(cache.matches[1].begin_matches[begin.second])

\* the selected begin match has no matching end: find_matching_end returns
\* the end of the end matches
NoMatchingEnd ==
    LET m == cache.matches[begin.first]
    IN find_matching_end(m, end_coord(m.begin_matches[begin.second])).end_it
           > Len(m.end_matches)

C25_Step ==
    (pc = "resolve" /\ begin # EndSentinel(cache) /\ NoMatchingEnd) =>
        /\ cache'.regions = Append(cache.regions,
                                   [begin |-> BeginCoordOf(cache, begin),
                                    end |-> buffer_end_coord(buffer),
                                    group |-> m_regions[begin.first].name])
        /\ pc' = "returned"
        /\ returned' = [how |-> "resolved", regions |-> cache'.regions]
        /\ cache'.timestamp = buffer.timestamp

\* C25: in the resolution loop, when the selected begin match has no
\* matching end, the turn appends exactly one region, from that begin to
\* the buffer's end coordinate, and the loop ends: the list is returned
\* with this region last, whatever begin matches come later.
C25_UnclosedRegionEndsResolution == [][C25_Step]_vars

\* the resolution has ended on an unclosed begin after a closed region,
\* and a begin match of a region lies after that begin
C25_Witness ==
    /\ pc = "returned" /\ returned.how = "resolved"
    /\ ~hist.call.found
    /\ Len(returned.regions) >= 2
    /\ returned.regions[Len(returned.regions)].end = buffer_end_coord(buffer)
    /\ \E i \in 1..Len(cache.matches) : \E k \in 1..Len(cache.matches[i].begin_matches) :
           CoordLT(returned.regions[Len(returned.regions)].begin,
                   begin_coord(cache.matches[i].begin_matches[k]))
    /\ \A j \in 1..(Len(returned.regions) - 1) :
           CoordLT(returned.regions[j].begin, returned.regions[Len(returned.regions)].begin)

(* ---------------------------------------------------------------------- *)
(* RegionsHighlighter::operator(): the regions that meet the display      *)
(* range, and the calls of apply_highlighter on them and on the gaps       *)
(* ---------------------------------------------------------------------- *)
NoDefaultGroup == ""

(* the groups regions_factory creates: one per region, one for -default *)
FactoryGroups(defs, default_group) ==
    {defs[i].name : i \in 1..Len(defs)}
        \cup (IF default_group = NoDefaultGroup THEN {} ELSE {default_group})

(* std::lower_bound over the region list, comparing r.end < c *)
LowerBoundEnd(regions, c) ==
    LET idx == {i \in 1..Len(regions) : ~CoordLT(regions[i].end, c)}
    IN IF idx = {} THEN Len(regions) + 1 ELSE CHOOSE i \in idx : \A j \in idx : i <= j

(* std::lower_bound from a position on, comparing r.begin < c *)
LowerBoundRegionBegin(regions, from, c) ==
    LET idx == {i \in from..Len(regions) : ~CoordLT(regions[i].begin, c)}
    IN IF idx = {} THEN Len(regions) + 1 ELSE CHOOSE i \in idx : \A j \in idx : i <= j

(* the lambda correct: the coordinate after the last byte of a line is the *)
(* start of the next line                                                  *)
correct(buf, c) == IF Len(BufLine(buf, c[1])) = c[2] THEN <<c[1] + 1, 0>> ELSE c

(* the mutation of the loop: last_begin is never moved *)
LastBeginKept(last_begin, region) == last_begin

(* last_begin = begin->end *)
LastBeginAfter(last_begin, region) == region.end

(* a call apply_highlighter(context, flags, display_buffer, b, e, group) *)
ApplyCall(b, e, group) == [begin |-> b, end |-> e, group |-> group]

(* the loop over the regions begin .. end, and the call after it *)
RECURSIVE RegionsLoop(_, _, _, _, _, _, _, _)
RegionsLoop(regions, i, end, last_begin, buf, groups, default_group, calls) ==
    LET apply_default == default_group \in groups
    IN IF i >= end
       THEN [calls |-> calls, last_begin |-> last_begin]
       ELSE LET r == regions[i]
                calls1 == IF apply_default /\ CoordLT(last_begin, r.begin)
                          THEN Append(calls, ApplyCall(correct(buf, last_begin),
                                                       correct(buf, r.begin), default_group))
                          ELSE calls
            IN IF r.group \notin groups
               THEN RegionsLoop(regions, i + 1, end, last_begin, buf, groups,
                                default_group, calls1)
               ELSE RegionsLoop(regions, i + 1, end, LastBeginAfter(last_begin, r), buf,
                                groups, default_group,
                                Append(calls1, ApplyCall(correct(buf, r.begin),
                                                         correct(buf, r.end), r.group)))

(* the calls of one invocation, in order *)
RegionsCalls(regions, range, fl, buf, groups, default_group) ==
    IF fl # "Highlight" THEN <<>>
    ELSE LET b == LowerBoundEnd(regions, range[1])
             e == LowerBoundRegionBegin(regions, b, range[2])
             loop == RegionsLoop(regions, b, e, range[1], buf, groups, default_group, <<>>)
         IN IF default_group \in groups /\ CoordLT(loop.last_begin, range[2])
            THEN Append(loop.calls, ApplyCall(correct(buf, loop.last_begin), range[2],
                                              default_group))
            ELSE loop.calls

(* the display buffer after the calls; the groups the factory creates hold *)
(* no highlighter                                                          *)
RECURSIVE ApplyCalls(_, _, _, _, _)
ApplyCalls(lines, calls, k, fl, buf) ==
    IF k > Len(calls) THEN lines
    ELSE CHOOSE res \in {ApplyCalls(next, calls, k + 1, fl, buf) :
                            next \in {apply_highlighter(lines, calls[k].begin, calls[k].end,
                                                        [kind |-> "none"], fl, buf)}} : TRUE

(* ---------------------------------------------------------------------- *)
(* Specification: the regions highlighter invoked on a window             *)
(* ---------------------------------------------------------------------- *)
DefaultGroupSet == {NoDefaultGroup, "default"}

\* the rest of operator() once update_cache_ifn has returned
InvokeRegions ==
    /\ pc = "returned"
    /\ \E first \in 0..(line_count(buffer) - 1), last \in 0..(line_count(buffer) - 1),
          fl \in {"Highlight", "MoveOnly"}, default_group \in DefaultGroupSet :
           /\ first <= last
           /\ LET lines == WindowDisplay(first, last)
                  range == display_range(lines)
                  calls == RegionsCalls(returned.regions, range, fl, buffer,
                                        FactoryGroups(m_regions, default_group),
                                        default_group)
              IN /\ display' = ApplyCalls(lines, calls, 1, fl, buffer)
                 /\ hist' = [range |-> range, flags |-> fl, default_group |-> default_group,
                             calls |-> calls]
    /\ pc' = "invoked"
    /\ UNCHANGED <<bufVars, regionVars, flags, matchVars, wordVars, extVars>>

RegionsPassNext == UpdateCacheIfn \/ ResolveStep \/ ResolveExit \/ InvokeRegions

SpecRegionsPass == RegionInit /\ [][RegionsPassNext]_vars

\* the buffer positions of the display range
ViewportCoords(range) == {x \in AllCoords : InRange(x, range[1], range[2])}

\* the calls whose range holds position x
CallsAt(calls, x) == {k \in 1..Len(calls) : InRange(x, calls[k].begin, calls[k].end)}

\* the regions of the list that hold position x
RegionsAt(regions, x) ==
    {i \in 1..Len(regions) : InRange(x, regions[i].begin, regions[i].end)}

\* C26: in one invocation of the regions highlighter the ranges passed to
\* apply_highlighter come in increasing order and do not overlap; every
\* position of the display range that lies in a resolved region is passed,
\* once, to the child named after the region, with the region's range;
\* with a default child every other position of the display range is
\* passed, once, to the default child; without one it is passed to no child.
C26_SubRangesPartitionViewport ==
    (pc = "invoked" /\ hist.flags = "Highlight") =>
        LET calls == hist.calls
            regions == returned.regions
        IN /\ \A k \in 1..Len(calls) : CoordLE(calls[k].begin, calls[k].end)
           /\ \A j \in 1..Len(calls), k \in 1..Len(calls) :
                  j < k => CoordLE(calls[j].end, calls[k].begin)
           /\ \A x \in ViewportCoords(hist.range) :
                  IF RegionsAt(regions, x) # {}
                  THEN /\ Cardinality(CallsAt(calls, x)) = 1
                       /\ \A k \in CallsAt(calls, x) : \A i \in RegionsAt(regions, x) :
                              calls[k] = ApplyCall(correct(buffer, regions[i].begin),
                                                   correct(buffer, regions[i].end),
                                                   regions[i].group)
                  ELSE IF hist.default_group = NoDefaultGroup
                  THEN CallsAt(calls, x) = {}
                  ELSE /\ Cardinality(CallsAt(calls, x)) = 1
                       /\ \A k \in CallsAt(calls, x) : calls[k].group = hist.default_group

\* an invocation with a default child on a window that shows the second
\* line only: a region that began on the first line, a gap, a region, and
\* the default child called at least twice
C26_Witness ==
    /\ pc = "invoked" /\ hist.flags = "Highlight"
    /\ hist.default_group = "default"
    /\ CoordLT(<<0, 0>>, hist.range[1])
    /\ Len(hist.calls) >= 3
    /\ CoordLT(hist.calls[1].begin, hist.range[1])
    /\ \E k \in 2..Len(hist.calls) : hist.calls[k].group # "default"
    /\ \E k \in 1..Len(hist.calls) : hist.calls[k].group = "default"

(* ---------------------------------------------------------------------- *)
(* Specification: one regex highlighter on a buffer longer than the       *)
(* margin, invoked on windows at several places, under edits              *)
(* ---------------------------------------------------------------------- *)
MaxWindowEdits == 2

\* a buffer of n lines "b\n" with "a\n" at the lines of marked
LinesMarked(n, marked) ==
    [k \in 1..n |-> IF (k - 1) \in marked THEN <<"a", "\n">> ELSE <<"b", "\n">>]

WindowContentSet == {<<(<<"a", "b", "\n">>)>>,
                     LinesMarked(14, {0, 6, 13}),
                     LinesMarked(14, {1, 12})}

\* the first and last line the window shows
ViewportSet == {<<0, 0>>, <<0, 1>>, <<1, 2>>, <<12, 13>>}

WindowInit ==
    /\ \E content \in WindowContentSet :
          buffers = [b \in BufferNames |-> [lines |-> content, timestamp |-> 0]]
    /\ values = [b \in BufferNames |-> [id \in ValueIds |-> NoValue]]
    /\ next_id = 1
    /\ highlighters = [h \in HighlighterNames |->
                          IF h = "h1"
                          THEN [m_id |-> 0, m_regex |-> Lit("a"), m_faces |-> RangeFace]
                          ELSE NotConstructed]
    /\ hist = [op |-> "none"]
    /\ pc = "window"
    /\ buffer = [lines |-> <<>>, timestamp |-> 0] /\ modifs = <<>>
    /\ MatchIdle /\ WordIdle /\ RegionIdle /\ DisplayIdle /\ RegistryIdle /\ RefIdle /\ LateIdle

EditWindowBuffer ==
    /\ pc = "window"
    /\ buffers["b1"].timestamp < MaxWindowEdits
    /\ \E content \in WindowContentSet :
        /\ content /= buffers["b1"].lines
        /\ buffers' = [buffers EXCEPT !["b1"] = [lines |-> content,
                                                 timestamp |-> @.timestamp + 1]]
    /\ hist' = [op |-> "edit"]
    /\ UNCHANGED <<bufVars, matchVars, wordVars, regionVars, displayVars, registryVars, lateVars,
                   refVars, values, next_id, highlighters, pc>>

\* one pass of the regex highlighter over a window on the buffer; hist
\* keeps the range of the display buffer, the cache get returned and
\* whether the buffer was scanned
InvokeOnViewport ==
    /\ pc = "window"
    /\ \E v \in ViewportSet, fl \in {"Highlight", "MoveOnly"} :
        /\ v[2] < line_count(buffers["b1"])
        /\ \E r \in {RegexHighlighterCall(highlighters["h1"], fl, WindowDisplay(v[1], v[2]),
                                           buffers["b1"], values["b1"], -1)} :
           /\ display' = r.display
           /\ flags' = fl
           /\ values' = [values EXCEPT !["b1"] = r.values]
           /\ hist' = [op |-> "window", h |-> "h1", b |-> "b1",
                       range |-> display_range(WindowDisplay(v[1], v[2])),
                       scanned |-> r.scanned, got |-> r.got]
    /\ UNCHANGED <<bufVars, matchVars, wordVars, regionVars, registryVars, lateVars, refVars,
                   buffers, next_id, highlighters, pc>>

WindowNext == EditWindowBuffer \/ InvokeOnViewport

SpecWindow == WindowInit /\ [][WindowNext]_vars

\* the lines of the viewport as update_cache_ifn reads them off the range
\* of the display buffer, and the cache of h1 after the invocation
ViewportFirst == hist.range[1][1]
ViewportLast == Min(line_count(buffers["b1"]) - 1, hist.range[2][1])
CacheAfter == values["b1"][highlighters["h1"].m_id]

C28_MatchesAreScanOfWindow ==
    (hist.op = "window" /\ flags = "Highlight") =>
        /\ CacheAfter.m_matches =
               RegexIteratorMatches(buffers["b1"], CacheAfter.m_range[1], CacheAfter.m_range[2],
                                    highlighters["h1"].m_regex)
        /\ CacheAfter.m_range[1] <= ViewportFirst
        /\ ViewportLast <= CacheAfter.m_range[2]

(* ---------------------------------------------------------------------- *)
(* Specification: get_words applied to one content                         *)
(* ---------------------------------------------------------------------- *)
MaxContentLen == 4

ContentChars == {"a", "b", " ", "\n"}

ContentSet == UNION {[1..n -> ContentChars] : n \in 0..MaxContentLen}

GetWordsInit ==
    /\ \E content \in ContentSet : hist = [content |-> content, called |-> FALSE, words |-> <<>>]
    /\ pc = "get_words"
    /\ buffer = [lines |-> <<>>, timestamp |-> 0] /\ modifs = <<>>
    /\ MatchIdle /\ WordIdle /\ RegionIdle /\ DisplayIdle /\ ExtIdle

CallGetWords ==
    /\ pc = "get_words"
    /\ ~hist.called
    /\ hist' = [hist EXCEPT !.called = TRUE, !.words = get_words(hist.content)]
    /\ UNCHANGED <<bufVars, matchVars, wordVars, regionVars, displayVars, extVars, pc>>

GetWordsNext == CallGetWords

SpecGetWords == GetWordsInit /\ [][GetWordsNext]_vars

\* the maximal runs of word codepoints of a content, as pairs of the first
\* and last position, and the runs in the order of the content
RunsOf(content) ==
    {r \in (1..Len(content)) \X (1..Len(content)) :
        /\ r[1] <= r[2]
        /\ \A k \in r[1]..r[2] : is_word(content[k])
        /\ (r[1] = 1 \/ ~is_word(content[r[1] - 1]))
        /\ (r[2] = Len(content) \/ ~is_word(content[r[2] + 1]))}

MaximalRuns(content) ==
    LET runs == RunsOf(content)
        nth(k) == CHOOSE r \in runs : Cardinality({q \in runs : q[1] < r[1]}) = k - 1
    IN [k \in 1..Cardinality(runs) |-> SubSeq(content, nth(k)[1], nth(k)[2])]

C30_UpdatedEqualsFresh ==
    pc = "updated" =>
        /\ Len(word_db.m_line_to_words) = line_count(buffer)
        /\ \A i \in 0..(line_count(buffer) - 1) :
               word_db.m_line_to_words[i + 1] = get_words(BufLine(buffer, i))
        /\ word_db.m_line_to_words = NewWordDB(buffer).m_line_to_words
        /\ word_db.m_words = NewWordDB(buffer).m_words
        /\ word_db.m_timestamp = NewWordDB(buffer).m_timestamp

\* an update after two modifications that changed the number of lines and
\* the words of the buffer
C30_Witness ==
    /\ pc = "updated"
    /\ hist.modifs = 2
    /\ hist.dropped
    /\ Len(word_db.m_line_to_words) = 3
    /\ word_db.m_timestamp = 2

(* ---------------------------------------------------------------------- *)
(* show_matching_char and highlight_selections (highlighters.cc:516-593)   *)
(* ---------------------------------------------------------------------- *)
\* Buffer::char_next: the start of the codepoint after the one at c; after
\* the last codepoint of the buffer, the end of the last line
char_next(buf, c) ==
    IF c[2] < Len(BufLine(buf, c[1])) - 1
    THEN LET n == IF CharAt(buf, c) = LeadByte THEN c[2] + 2 ELSE c[2] + 1
         IN <<c[1], Min(n, Len(BufLine(buf, c[1])))>>
    ELSE IF c[1] = line_count(buf) - 1 THEN <<c[1], Len(BufLine(buf, c[1]))>>
         ELSE <<c[1] + 1, 0>>

\* the byte before c in the buffer
PrevCoord(buf, c) ==
    IF c[2] > 0 THEN <<c[1], c[2] - 1>> ELSE <<c[1] - 1, Len(BufLine(buf, c[1] - 1)) - 1>>

matching_chars == <<(<<"(", ")">>), (<<"{", "}">>), (<<"[", "]">>), (<<"<", ">">>)>>

\* the faces get_face returns for the names the two highlighters ask for
FaceNames == {"MatchingChar", "PrimarySelection", "SecondarySelection",
              "PrimaryCursor", "SecondaryCursor"}

FaceRegistrySet ==
    {[MatchingChar |-> [fg |-> "default", bg |-> "magenta"],
      PrimarySelection |-> [fg |-> "white", bg |-> "blue"],
      SecondarySelection |-> [fg |-> "black", bg |-> "blue"],
      PrimaryCursor |-> [fg |-> "black", bg |-> "white"],
      SecondaryCursor |-> [fg |-> "black", bg |-> "white"]],
     [MatchingChar |-> [fg |-> "default", bg |-> "magenta"],
      PrimarySelection |-> [fg |-> "default", bg |-> "blue"],
      SecondarySelection |-> [fg |-> "default", bg |-> "cyan"],
      PrimaryCursor |-> [fg |-> "red", bg |-> "default"],
      SecondaryCursor |-> [fg |-> "yellow", bg |-> "default"]]}

\* skip_while(it, end, ...) of the forward scan: [it, level] when it stops
RECURSIVE SkipForward(_, _, _, _, _)
SkipForward(buf, it, end, pair, level) ==
    IF it = end THEN [it |-> it, level |-> level]
    ELSE IF CharAt(buf, it) = pair[1]
         THEN SkipForward(buf, NextCoord(buf, it), end, pair, level + 1)
         ELSE IF CharAt(buf, it) = pair[2]
              THEN IF level - 1 = 0 THEN [it |-> it, level |-> 0]
                   ELSE SkipForward(buf, NextCoord(buf, it), end, pair, level - 1)
              ELSE SkipForward(buf, NextCoord(buf, it), end, pair, level)

\* skip_while_reverse(it, end, ...) of the backward scan
RECURSIVE SkipBackward(_, _, _, _, _)
SkipBackward(buf, it, end, pair, level) ==
    IF it = end THEN [it |-> it, level |-> level]
    ELSE IF CharAt(buf, it) = pair[2]
         THEN SkipBackward(buf, PrevCoord(buf, it), end, pair, level + 1)
         ELSE IF CharAt(buf, it) = pair[1]
              THEN IF level - 1 = 0 THEN [it |-> it, level |-> 0]
                   ELSE SkipBackward(buf, PrevCoord(buf, it), end, pair, level - 1)
              ELSE SkipBackward(buf, PrevCoord(buf, it), end, pair, level)

\* the mutation of the test after the backward scan: a scan that reached
\* the first position of the window highlights nothing
FoundBackwardInside(buf, st, end, pair) == st.it /= end

\* the test after the backward scan
FoundBackward(buf, st, end, pair) ==
    st.it /= end \/ (CharAt(buf, end) = pair[1] /\ st.level = 1)

\* the loop over matching_chars for the cursor pos: the positions
\* highlight_range is called on (at most one)
RECURSIVE MatchingFrom(_, _, _, _)
MatchingFrom(buf, range, pos, k) ==
    IF k > Len(matching_chars) THEN {}
    ELSE LET pair == matching_chars[k]
             c == CharAt(buf, pos)
         IN IF c = pair[1]
            THEN LET st == SkipForward(buf, NextCoord(buf, pos), range[2], pair, 1)
                 IN IF st.it /= range[2] THEN {st.it} ELSE {}
            ELSE IF c = pair[2] /\ CoordLT(range[1], pos)
                 THEN LET st == SkipBackward(buf, PrevCoord(buf, pos), range[1], pair, 1)
                      IN IF FoundBackward(buf, st, range[1], pair) THEN {st.it} ELSE {}
                 ELSE MatchingFrom(buf, range, pos, k + 1)

\* the body of the loop over the selections
MatchingOf(buf, range, sel) ==
    IF CoordLT(sel.cursor, range[1]) \/ CoordLE(range[2], sel.cursor) THEN {}
    ELSE MatchingFrom(buf, range, sel.cursor, 1)

RECURSIVE ShowMatchingLoop(_, _, _, _, _, _)
ShowMatchingLoop(lines, buf, range, sels, i, face) ==
    IF i > Len(sels) THEN lines
    ELSE LET found == MatchingOf(buf, range, sels[i])
         IN IF found = {} THEN ShowMatchingLoop(lines, buf, range, sels, i + 1, face)
            ELSE CHOOSE res \in
                     {ShowMatchingLoop(next, buf, range, sels, i + 1, face) :
                          next \in {highlight_range(lines, it, NextCoord(buf, it), FALSE,
                                                    FaceFunctor(face)) : it \in found}} : TRUE

show_matching_char(lines, buf, sels, faces) ==
    ShowMatchingLoop(lines, buf, display_range(lines), sels.list, 1, faces.MatchingChar)

\* the ranges of the first loop of highlight_selections
SelectionBegin(buf, sel) ==
    IF CoordLE(sel.anchor, sel.cursor) THEN sel.anchor ELSE char_next(buf, sel.cursor)

SelectionEnd(buf, sel) ==
    IF CoordLE(sel.anchor, sel.cursor) THEN sel.cursor ELSE char_next(buf, sel.anchor)

RECURSIVE SelectionFacesLoop(_, _, _, _, _)
SelectionFacesLoop(lines, buf, sels, i, faces) ==
    IF i > Len(sels.list) THEN lines
    ELSE LET primary == (i - 1 = sels.main_index)
             sel_face == IF primary THEN faces.PrimarySelection ELSE faces.SecondarySelection
         IN CHOOSE res \in
                {SelectionFacesLoop(next, buf, sels, i + 1, faces) :
                     next \in {highlight_range(lines, SelectionBegin(buf, sels.list[i]),
                                               SelectionEnd(buf, sels.list[i]), FALSE,
                                               FaceFunctor(sel_face))}} : TRUE

RECURSIVE CursorFacesLoop(_, _, _, _, _)
CursorFacesLoop(lines, buf, sels, i, faces) ==
    IF i > Len(sels.list) THEN lines
    ELSE LET primary == (i - 1 = sels.main_index)
             cur_face == IF primary THEN faces.PrimaryCursor ELSE faces.SecondaryCursor
         IN CHOOSE res \in
                {CursorFacesLoop(next, buf, sels, i + 1, faces) :
                     next \in {highlight_range(lines, sels.list[i].cursor,
                                               char_next(buf, sels.list[i].cursor), FALSE,
                                               FaceFunctor(cur_face))}} : TRUE

highlight_selections(lines, buf, sels, fl, faces) ==
    IF fl /= "Highlight" THEN lines
    ELSE CHOOSE res \in {CursorFacesLoop(mid, buf, sels, 1, faces) :
                            mid \in {SelectionFacesLoop(lines, buf, sels, 1, faces)}} : TRUE

(* ---------------------------------------------------------------------- *)
(* Specification: the two selection highlighters on a window               *)
(* ---------------------------------------------------------------------- *)
SelBufferSet ==
    {[lines |-> <<(<<"(", "a", "(", ")", ")", "\n">>), (<<"[", "(", "]", ")", "\n">>)>>,
      timestamp |-> 1],
     [lines |-> <<(<<"(", "(", "\n">>), (<<")", "a", ")", "\n">>)>>, timestamp |-> 1],
     [lines |-> <<(<<"a", "C2", "85", "b", "\n">>)>>, timestamp |-> 1]}

\* the positions where a codepoint starts
CodepointStarts(buf) ==
    {x \in UNION {{<<l, c>> : c \in 0..(Len(BufLine(buf, l)) - 1)} :
                      l \in 0..(line_count(buf) - 1)} :
        ~(x[2] > 0 /\ CharAt(buf, x) = ContByte /\ CharAt(buf, <<x[1], x[2] - 1>>) = LeadByte)}

SelMin(sel) == IF CoordLE(sel.anchor, sel.cursor) THEN sel.anchor ELSE sel.cursor
SelMax(sel) == IF CoordLE(sel.anchor, sel.cursor) THEN sel.cursor ELSE sel.anchor

\* the selection lists of a context: sorted, no two selections overlap
\* (one selection, or a selection followed by one of a single codepoint)
SelectionsSet(buf) ==
    LET one == [anchor : CodepointStarts(buf), cursor : CodepointStarts(buf)]
        point == {s \in one : s.anchor = s.cursor}
    IN {[list |-> <<s>>, main_index |-> 0] : s \in one}
       \cup {[list |-> <<p[1], p[2]>>, main_index |-> m] :
                 p \in {q \in one \X point : CoordLT(SelMax(q[1]), SelMin(q[2]))},
                 m \in {0, 1}}

SelInit ==
    /\ buffer \in SelBufferSet
    /\ modifs = <<>>
    /\ selections \in SelectionsSet(buffer)
    /\ \E first \in 0..(line_count(buffer) - 1), last \in 0..(line_count(buffer) - 1) :
           /\ first <= last
           /\ display = WindowDisplay(first, last)
    /\ flags \in {"Highlight", "MoveOnly"}
    /\ \E faces \in FaceRegistrySet :
           hist = [op |-> "none", before |-> display, faces |-> faces]
    /\ pc = "selections"
    /\ MatchIdle /\ WordIdle /\ RegionIdle /\ RegistryIdle /\ CacheIdle /\ RefIdle /\ DynIdle /\ TailIdle

ShowMatchingChar ==
    /\ pc = "selections"
    /\ hist.op = "none"
    /\ display' = show_matching_char(display, buffer, selections, hist.faces)
    /\ hist' = [hist EXCEPT !.op = "show_matching"]
    /\ UNCHANGED <<bufVars, flags, matchVars, wordVars, regionVars, extVars, pc>>

HighlightSelections ==
    /\ pc = "selections"
    /\ hist.op = "none"
    /\ display' = highlight_selections(display, buffer, selections, flags, hist.faces)
    /\ hist' = [hist EXCEPT !.op = "selections"]
    /\ UNCHANGED <<bufVars, flags, matchVars, wordVars, regionVars, extVars, pc>>

SelNext == ShowMatchingChar \/ HighlightSelections

SpecSelections == SelInit /\ [][SelNext]_vars

\* the positions the window shows and the face the display gives position x
ShownCoords == {x \in AllCoords : \E k \in 1..Len(display) : AtomsAt(display[k], "BufferRange", x) /= {}}

ShownFace(x) ==
    LET k == CHOOSE k \in 1..Len(display) : AtomsAt(display[k], "BufferRange", x) /= {}
    IN FaceAt(display[k], x)

\* the codepoint at the cursor, and the closed range from anchor to cursor
InCursor(sel, x) == CoordLE(sel.cursor, x) /\ CoordLT(x, char_next(buffer, sel.cursor))

InClosedRange(sel, x) ==
    /\ CoordLE(SelMin(sel), x)
    /\ CoordLT(x, char_next(buffer, SelMax(sel)))

\* what the claim asks of position x: the Selection face of each selection
\* whose closed range holds x, then the Cursor face of each whose cursor
\* codepoint holds x
RECURSIVE OverlaySelection(_, _, _)
OverlaySelection(face, x, i) ==
    IF i > Len(selections.list) THEN face
    ELSE LET primary == (i - 1 = selections.main_index)
             f == IF primary THEN hist.faces.PrimarySelection ELSE hist.faces.SecondarySelection
         IN OverlaySelection(IF InClosedRange(selections.list[i], x)
                             THEN apply_face(f, [face |-> face]).face ELSE face, x, i + 1)

RECURSIVE OverlayCursor(_, _, _)
OverlayCursor(face, x, i) ==
    IF i > Len(selections.list) THEN face
    ELSE LET primary == (i - 1 = selections.main_index)
             f == IF primary THEN hist.faces.PrimaryCursor ELSE hist.faces.SecondaryCursor
         IN OverlayCursor(IF InCursor(selections.list[i], x)
                          THEN apply_face(f, [face |-> face]).face ELSE face, x, i + 1)

\* C31: for every selection, forward or reversed, the selections
\* highlighter overlays the Primary/Secondary Selection face on every
\* codepoint of the closed range between anchor and cursor, the cursor
\* codepoint included, and then the Primary/Secondary Cursor face on the
\* cursor codepoint; the primary faces go to the selection at main_index
\* and to no other.
C31_ClosedRangeThenCursor ==
    (hist.op = "selections" /\ flags = "Highlight") =>
        \A x \in ShownCoords :
            ShownFace(x) = OverlayCursor(OverlaySelection(DefaultFace, x, 1), x, 1)

\* the pair of matching_chars the byte at x opens or closes, if any
PairsOf(ch) == {k \in 1..Len(matching_chars) : ch \in {matching_chars[k][1], matching_chars[k][2]}}

\* the number of positions of the window (shown) from a to b, both
\* included, that hold the byte ch
CountBetween(shown, a, b, ch) ==
    Cardinality({p \in shown : CoordLE(a, p) /\ CoordLE(p, b) /\ CharAt(buffer, p) = ch})

\* the nesting depth of the pair at q, counted from a cursor on the
\* opening bracket at pos (q after pos) or on the closing one (q before)
DepthAfter(shown, pos, q, pair) ==
    1 + CountBetween(shown, NextCoord(buffer, pos), q, pair[1])
      - CountBetween(shown, NextCoord(buffer, pos), q, pair[2])

DepthBefore(shown, pos, q, pair) ==
    1 + CountBetween(shown, q, PrevCoord(buffer, pos), pair[2])
      - CountBetween(shown, q, PrevCoord(buffer, pos), pair[1])

\* the positions the claim asks to be highlighted for the cursor pos
Partner(shown, pos) ==
    IF pos \notin shown \/ PairsOf(CharAt(buffer, pos)) = {} THEN {}
    ELSE LET pair == matching_chars[CHOOSE k \in PairsOf(CharAt(buffer, pos)) : TRUE]
         IN IF CharAt(buffer, pos) = pair[1]
            THEN CHOOSE res \in
                     {{q \in later : \A o \in later : CoordLE(q, o)} :
                          later \in {{q \in shown : /\ CoordLT(pos, q)
                                                    /\ DepthAfter(shown, pos, q, pair) = 0}}} : TRUE
            ELSE CHOOSE res \in
                     {{q \in earlier : \A o \in earlier : CoordLE(o, q)} :
                          earlier \in {{q \in shown : /\ CoordLT(q, pos)
                                                      /\ DepthBefore(shown, pos, q, pair) = 0}}} : TRUE

\* C32: for a cursor inside the viewport on an opening bracket,
\* show_matching highlights the first later position of the viewport where
\* the nesting depth of that pair is back to zero, and nothing when there
\* is none; for a cursor on a closing bracket, the nearest earlier position
\* of the viewport (its first position included) where the depth is back to
\* zero. Brackets of other pairs do not count, and no cursor has more than
\* one position highlighted.
C32_PartnerInViewport ==
    hist.op = "show_matching" =>
        \A shown \in {ShownCoords} :
        \A partners \in {[i \in 1..Len(selections.list) |->
                             Partner(shown, selections.list[i].cursor)]} :
            /\ \A x \in shown :
                   \A face \in {ShownFace(x)} :
                       /\ face \in {DefaultFace, hist.faces.MatchingChar}
                       /\ (face = hist.faces.MatchingChar)
                              <=> (\E i \in 1..Len(selections.list) : x \in partners[i])
            /\ \A i \in 1..Len(selections.list) :
                   /\ Cardinality(partners[i]) <= 1
                   /\ MatchingOf(buffer, display_range(hist.before), selections.list[i])
                          = partners[i]

\* a cursor on the closing bracket of the outer of two nested pairs, the
\* partner being the first position of the window
C32_Witness ==
    /\ hist.op = "show_matching"
    /\ BufLine(buffer, 0) = <<"(", "(", "\n">>
    /\ display_range(display)[1] = <<0, 0>>
    /\ \E i \in 1..Len(selections.list) : selections.list[i].cursor = <<1, 2>>
    /\ ShownFace(<<0, 0>>) = hist.faces.MatchingChar
    /\ ShownFace(<<0, 1>>) = DefaultFace

(* ---------------------------------------------------------------------- *)
(* DynamicRegexHighlighter, search and regex_option                        *)
(* (highlighters.cc:308-393)                                               *)
(* ---------------------------------------------------------------------- *)
MaxDynamicIds == 4

\* the strings the register / holds; "(" does not compile
RegisterValues == {"", "a", "b", "("}
Compiles(str) == str /= "("

\* the get_regex of highlight_search_factory (the regex_error is caught
\* there) and of highlight_regex_option_factory (the option holds a Regex)
get_regex(kind, str) ==
    IF str = "" THEN EmptyRegex
    ELSE IF ~Compiles(str) THEN EmptyRegex
    ELSE Lit(str)

\* the FacesSpec both face getters return, the empty one, and the face
\* get_face gives for it
SearchFacesSpec == <<"Search">>
EmptyFacesSpec == <<>>
SearchFace == [fg |-> "black", bg |-> "yellow"]

\* the mutation of the test below: only the first re is taken up
RegexChangedOnce(re, face, d) == d.m_last_regex = EmptyRegex /\ re /= d.m_last_regex

\* the test for building a new RegexHighlighter
RegexChanged(re, face, d) == re /= d.m_last_regex \/ face /= d.m_last_face

\* DynamicRegexHighlighter::DynamicRegexHighlighter: m_highlighter owns a
\* BufferSideCache with the id nid
NewDynamic(kind, nid) ==
    [kind |-> kind, m_last_regex |-> EmptyRegex, m_last_face |-> EmptyFacesSpec,
     m_highlighter |-> [m_id |-> nid, m_regex |-> EmptyRegex, m_faces |-> DefaultFace]]

\* DynamicRegexHighlighter::operator(): [dynamic, next_id, display, values,
\* escaped]; the RegexHighlighter assigned to m_highlighter is a new one,
\* with a BufferSideCache of its own
DynamicCall(d, str, fl, lines, buf, vals, nid) ==
    IF fl /= "Highlight"
    THEN [dynamic |-> d, next_id |-> nid, display |-> lines, values |-> vals, escaped |-> FALSE]
    ELSE LET re == get_regex(d.kind, str)
             face == SearchFacesSpec
             changed == RegexChanged(re, face, d)
             built == changed /\ re /= EmptyRegex
             d1 == IF ~changed THEN d
                   ELSE [d EXCEPT !.m_last_regex = re,
                                  !.m_last_face = face,
                                  !.m_highlighter =
                                      IF re /= EmptyRegex
                                      THEN [m_id |-> nid, m_regex |-> re, m_faces |-> SearchFace]
                                      ELSE @]
         IN IF d1.m_last_regex /= EmptyRegex /\ d1.m_last_face /= EmptyFacesSpec
            THEN LET r == RegexHighlighterCall(d1.m_highlighter, fl, lines, buf, vals, -1)
                 IN [dynamic |-> d1, next_id |-> IF built THEN nid + 1 ELSE nid,
                     display |-> r.display, values |-> r.values, escaped |-> r.escaped]
            ELSE [dynamic |-> d1, next_id |-> IF built THEN nid + 1 ELSE nid,
                  display |-> lines, values |-> vals, escaped |-> FALSE]

(* ---------------------------------------------------------------------- *)
(* Specification: a search or regex_option highlighter under changes of    *)
(* the register or option and edits of the buffer                          *)
(* ---------------------------------------------------------------------- *)
DynamicContentSet == {<<(<<"a", "b", "\n">>)>>,
                      <<(<<"b", "a", "\n">>), (<<"a", "b", "\n">>)>>}

DynamicIds == 0..(MaxDynamicIds - 1)

DynamicInit ==
    /\ \E content \in DynamicContentSet :
          buffers = [b \in {"b1"} |-> [lines |-> content, timestamp |-> 0]]
    /\ values = [b \in {"b1"} |-> [id \in DynamicIds |-> NoValue]]
    /\ next_id = 1
    /\ highlighters = <<>>
    /\ registers = ""
    /\ \E kind \in {"search", "regex_option"} : dynamic = NewDynamic(kind, 0)
    /\ hist = [op |-> "none"]
    /\ pc = "dynamic"
    /\ buffer = [lines |-> <<>>, timestamp |-> 0] /\ modifs = <<>>
    /\ MatchIdle /\ WordIdle /\ RegionIdle /\ DisplayIdle /\ RegistryIdle /\ RefIdle /\ SelIdle /\ TailIdle

\* a search, or a set of the option, gives the getter another value; an
\* option of type Regex only takes a string that compiles
SetRegister ==
    /\ pc = "dynamic"
    /\ next_id < MaxDynamicIds
    /\ \E str \in RegisterValues :
        /\ str /= registers
        /\ dynamic.kind = "regex_option" => Compiles(str)
        /\ registers' = str
    /\ hist' = [op |-> "set"]
    /\ UNCHANGED <<bufVars, matchVars, wordVars, regionVars, displayVars, registryVars,
                   cacheVars, refVars, selVars, tailVars, dynamic, pc>>

EditDynamicBuffer ==
    /\ pc = "dynamic"
    /\ buffers["b1"].timestamp < MaxRegexEdits
    /\ \E content \in DynamicContentSet :
        /\ content /= buffers["b1"].lines
        /\ buffers' = [buffers EXCEPT !["b1"] = [lines |-> content,
                                                 timestamp |-> @.timestamp + 1]]
    /\ hist' = [op |-> "edit"]
    /\ UNCHANGED <<bufVars, matchVars, wordVars, regionVars, displayVars, registryVars,
                   refVars, selVars, dynVars, tailVars, values, next_id, highlighters, pc>>

\* one pass of the highlighter over the window on the buffer
InvokeDynamic ==
    /\ pc = "dynamic"
    /\ \E fl \in {"Highlight", "MoveOnly"} :
        \E r \in {DynamicCall(dynamic, registers, fl,
                              WindowDisplay(0, line_count(buffers["b1"]) - 1),
                              buffers["b1"], values["b1"], next_id)} :
           /\ display' = r.display
           /\ flags' = fl
           /\ values' = [values EXCEPT !["b1"] = r.values]
           /\ dynamic' = r.dynamic
           /\ next_id' = r.next_id
           /\ hist' = [op |-> "dynamic", escaped |-> r.escaped, last |-> dynamic.m_last_regex]
    /\ UNCHANGED <<bufVars, matchVars, wordVars, regionVars, registryVars, refVars, selVars, tailVars,
                   buffers, highlighters, registers, pc>>

DynamicNext == SetRegister \/ EditDynamicBuffer \/ InvokeDynamic

SpecDynamic == DynamicInit /\ [][DynamicNext]_vars

\* the positions of buf the display shows with another face than the
\* default one, and the positions inside a match of re
HighlightedIn(lines, buf) ==
    UNION {UNION {IF has_buffer_range(lines[k][i]) /\ lines[k][i].face /= DefaultFace
                  THEN CoordsIn(buf, lines[k][i].begin, lines[k][i].end) ELSE {} :
                      i \in 1..Len(lines[k])} : k \in 1..Len(lines)}

MatchedIn(buf, re) ==
    LET ms == RegexIteratorMatches(buf, 0, line_count(buf) - 1, re)
    IN UNION {CoordsIn(buf, ms[k][1], ms[k][2]) : k \in 1..Len(ms)}

\* C33: the search highlighter and the regex_option highlighter highlight
\* with the regex their getter returns at the invocation: once the value
\* has changed no match of an earlier regex is highlighted, and when the
\* current regex is empty or does not compile nothing is highlighted and
\* no error leaves the invocation.
C33_CurrentRegexOnly ==
    (hist.op = "dynamic" /\ flags = "Highlight") =>
        LET re == get_regex(dynamic.kind, registers)
            buf == buffers["b1"]
        IN /\ ~hist.escaped
           /\ dynamic.m_last_regex = re
           /\ re /= EmptyRegex => dynamic.m_highlighter.m_regex = re
           /\ re = EmptyRegex => display = WindowDisplay(0, line_count(buf) - 1)
           /\ HighlightedIn(display, buf) \subseteq MatchedIn(buf, re)

\* the regex changed between two invocations: the matches of the new one
\* are highlighted and those of the one before are not
C33_Witness ==
    /\ hist.op = "dynamic" /\ flags = "Highlight"
    /\ hist.last = Lit("a")
    /\ registers = "b"
    /\ HighlightedIn(display, buffers["b1"]) = MatchedIn(buffers["b1"], Lit("b"))
    /\ MatchedIn(buffers["b1"], Lit("a")) /= {}
    /\ Cardinality(HighlightedIn(display, buffers["b1"])) = 2

\* the begin matches of the region definition k in the cache
OpenedBy(k) ==
    {begin_coord(cache.matches[k].begin_matches[i]) :
         i \in 1..Len(cache.matches[k].begin_matches)}

\* C34: after every cache update the resolved region list is sorted and
\* without overlap: r[i].begin <= r[i].end <= r[i+1].begin for consecutive
\* regions; the group of every region is the name of the region definition
\* whose begin match opened it.
C34_RegionsSortedDisjointNamed ==
    pc \in {"resolve", "returned"} =>
        /\ \A i \in 1..Len(cache.regions) :
               /\ CoordLE(cache.regions[i].begin, cache.regions[i].end)
               /\ i < Len(cache.regions) =>
                      CoordLE(cache.regions[i].end, cache.regions[i + 1].begin)
               /\ \E k \in 1..Len(m_regions) :
                      /\ m_regions[k].name = cache.regions[i].group
                      /\ cache.regions[i].begin \in OpenedBy(k)
               /\ \A k \in 1..Len(m_regions) :
                      cache.regions[i].begin \in OpenedBy(k)
                          => \E j \in 1..k : /\ m_regions[j].name = cache.regions[i].group
                                             /\ cache.regions[i].begin \in OpenedBy(j)
        /\ pc = "returned" => returned.regions = cache.regions

\* a list resolved after an edit, with regions of two definitions
C34_Witness ==
    /\ pc = "returned"
    /\ returned.how = "resolved"
    /\ buffer.timestamp = 2
    /\ Len(cache.regions) >= 3
    /\ \E i, j \in 1..Len(cache.regions) : cache.regions[i].group /= cache.regions[j].group

(* ---------------------------------------------------------------------- *)
(* Specification: apply_highlighter on display buffers that hold a line    *)
(* without buffer range between lines of the buffer                        *)
(* ---------------------------------------------------------------------- *)
SpliceBuffer == [lines |-> <<(<<"a", "b", "\n">>), (<<"c", "d", "\n">>), (<<"e", "f", "\n">>)>>,
                 timestamp |-> 1]

\* the window on the three lines; the same with the middle line replaced
\* by a line of text, or by an empty line
SpliceDisplaySet ==
    {WindowDisplay(0, 2),
     <<(<<BufferAtom(<<0, 0>>, <<1, 0>>)>>), (<<TextAtom(<<"~">>, DefaultFace)>>),
       (<<BufferAtom(<<2, 0>>, <<3, 0>>)>>)>>,
     <<(<<BufferAtom(<<0, 0>>, <<1, 0>>)>>), <<>>, (<<BufferAtom(<<2, 0>>, <<3, 0>>)>>)>>}

SpliceRangeSet ==
    {<<(<<0, 0>>), (<<3, 0>>)>>, <<(<<0, 1>>), (<<2, 1>>)>>, <<(<<0, 0>>), (<<2, 2>>)>>,
     <<(<<0, 2>>), (<<2, 1>>)>>, <<(<<0, 1>>), (<<1, 1>>)>>, <<(<<1, 0>>), (<<2, 1>>)>>,
     <<(<<2, 0>>), (<<2, 2>>)>>, <<(<<0, 1>>), (<<0, 2>>)>>}

SpliceInit ==
    /\ buffer = SpliceBuffer
    /\ modifs = <<>>
    /\ display \in SpliceDisplaySet
    /\ flags \in {"Highlight", "MoveOnly"}
    /\ hist = [op |-> [kind |-> "none"], before |-> display, orig |-> display,
               twice |-> FALSE, n |-> 0]
    /\ pc = "display"
    /\ MatchIdle /\ WordIdle /\ RegionIdle /\ ExtIdle

ApplyOnLines ==
    /\ CanInvoke
    /\ \E r \in SpliceRangeSet, child \in {[kind |-> "none"],
                                           [kind |-> "fill", face |-> FillFace]} :
           /\ display' = apply_highlighter(display, r[1], r[2], child, flags, buffer)
           /\ hist' = Invoked([kind |-> "apply_highlighter", range |-> r, child |-> child])
    /\ UNCHANGED <<bufVars, flags, matchVars, wordVars, regionVars, pc, extVars>>

SpliceNext == ApplyOnLines

SpecSplice == SpliceInit /\ [][SpliceNext]_vars

\* the positions of the buffer the atoms of a line stand for, and the
\* atoms of the line that stand for none
LineCover(atoms) ==
    UNION {IF has_buffer_range(atoms[i]) THEN CoordsIn(buffer, atoms[i].begin, atoms[i].end)
           ELSE {} : i \in 1..Len(atoms)}

LineTexts(atoms) == SelectSeq(atoms, LAMBDA a : ~has_buffer_range(a))

C36_Step ==
    (/\ hist.op = "regex" /\ hist.raised /\ flags = "Highlight"
     /\ hist'.op = "regex" /\ hist'.h = hist.h /\ hist'.b = hist.b
     /\ flags' = "Highlight"
     /\ buffers' = buffers)
        => /\ hist'.scanned
           /\ hist'.got.m_timestamp = buffers[hist.b].timestamp
                  => hist'.got.m_matches =
                         RegexIteratorMatches(buffers[hist.b], hist'.got.m_range[1],
                                              hist'.got.m_range[2], highlighters[hist.h].m_regex)

\* C36: when the regex scan fails part-way during a rebuild of the cache,
\* the cache is not left marked up to date with a partial match list: the
\* next invocation at the same buffer timestamp and viewport scans again
\* and does not highlight from the incomplete matches.
C36_FailedScanNotCached == [][C36_Step]_vars

(* ---------------------------------------------------------------------- *)
(* The slots of the string registry: live or free, never both             *)
(* ---------------------------------------------------------------------- *)
\* the slot-map entries whose value is the slot
EntriesOf(slot) == {e \in m_slot_map : e.value = slot}

\* the positions of the free-slot list that hold the slot
FreeAt(slot) == {i \in 1..Len(m_free_slots) : m_free_slots[i] = slot}

LiveSlot(slot) ==
    /\ Cardinality(EntriesOf(slot)) = 1
    /\ FreeAt(slot) = {}
    /\ m_storage[slot].second > 0
    /\ \A e \in EntriesOf(slot) : e.key = storage_view(m_storage, slot)

FreeSlot(slot) ==
    /\ EntriesOf(slot) = {}
    /\ Cardinality(FreeAt(slot)) = 1
    /\ m_storage[slot].first = <<>>

\* C37: after any sequence of acquire and release calls every slot of the
\* storage is either live (the value of exactly one slot-map entry, with a
\* reference count above zero and a key that denotes the bytes stored in the
\* slot) or free (exactly once on the free-slot list, its data empty), never
\* both; the slot map and the free list name only slots of the storage, and
\* two entries of the slot map never share a slot or denote the same bytes.
C37_SlotsLiveOrFree ==
    pc = "registry" =>
        /\ \A slot \in 1..Len(m_storage) :
            /\ LiveSlot(slot) \/ FreeSlot(slot)
            /\ ~(EntriesOf(slot) /= {} /\ FreeAt(slot) /= {})
        /\ \A e \in m_slot_map : e.value \in 1..Len(m_storage)
        /\ \A i \in 1..Len(m_free_slots) : m_free_slots[i] \in 1..Len(m_storage)
        /\ \A e1, e2 \in m_slot_map :
            (e1.value = e2.value \/ ViewData(m_storage, e1.key) = ViewData(m_storage, e2.key))
                => e1 = e2

\* an acquire has taken the last free slot of two for a new string: slot 2 is
\* live again, slot 1 is still free
C37_Witness ==
    /\ pc = "registry"
    /\ hist.op = "acquire" /\ ~hist.was_live
    /\ Len(m_storage) = 2
    /\ m_free_slots = <<1>>
    /\ LiveSlot(2) /\ FreeSlot(1)

(* ---------------------------------------------------------------------- *)
(* EventManager: file descriptor watchers, timers and forced signals       *)
(* ---------------------------------------------------------------------- *)
MaxCalls == 1
MaxForced == 1
MaxClock == 1

\* the addresses an FDWatcher or a Timer can be constructed at, and the fds
WatcherIds == 1..2
TimerIds == 1..2
Fds == {0, 1}

\* TimePoint::max()
DateMax == 9
Dates == (0..MaxClock) \cup {DateMax}

Ids(S) == {x.id : x \in S}

\* FDWatcher::FDWatcher
FDWatcher(watchers, id, fd) == watchers \cup {[id |-> id, m_fd |-> fd]}

\* FDWatcher::~FDWatcher
DeleteFDWatcher(watchers, id) == {w \in watchers : w.id /= id}

\* Timer::Timer
Timer(timers, id, date) == timers \cup {[id |-> id, m_date |-> date]}

\* Timer::~Timer
DeleteTimer(timers, id) == {t \in timers : t.id /= id}

\* Timer::set_next_date
set_next_date(timers, id, date) ==
    {IF t.id = id THEN [t EXCEPT !.m_date = date] ELSE t : t \in timers}

\* EventManager::force_signal
force_signal(forced_fd, fd) == Append(forced_fd, fd)

\* what the code between two calls (by 0), the callback of a watcher (by -1)
\* or the callback of the timer by can do to the event manager
Effects(watchers, timers, forced_fd, by) ==
    {[kind |-> "none", id |-> 0, arg |-> 0]}
    \cup (IF by > 0 THEN {} ELSE
          {[kind |-> "new_watcher", id |-> i, arg |-> fd] :
               i \in WatcherIds \ Ids(watchers), fd \in Fds}
          \cup {[kind |-> "delete_watcher", id |-> i, arg |-> 0] : i \in Ids(watchers)}
          \cup {[kind |-> "force_signal", id |-> 0, arg |-> fd] :
                    fd \in (IF Len(forced_fd) < MaxForced THEN Fds ELSE {})})
    \cup (IF by < 0 THEN {} ELSE
          {[kind |-> "new_timer", id |-> i, arg |-> d] :
               i \in TimerIds \ Ids(timers), d \in Dates}
          \cup {[kind |-> "delete_timer", id |-> i, arg |-> 0] : i \in Ids(timers)}
          \cup {[kind |-> "set_next_date", id |-> i, arg |-> d] :
                    i \in (IF by = 0 THEN Ids(timers) ELSE Ids(timers) \cap {by}),
                    d \in Dates})

\* the event manager after the effect: [m_fd_watchers, m_timers, m_forced_fd]
Effect(e, watchers, timers, forced_fd) ==
    [m_fd_watchers |-> CASE e.kind = "new_watcher" -> FDWatcher(watchers, e.id, e.arg)
                         [] e.kind = "delete_watcher" -> DeleteFDWatcher(watchers, e.id)
                         [] OTHER -> watchers,
     m_timers |-> CASE e.kind = "new_timer" -> Timer(timers, e.id, e.arg)
                    [] e.kind = "delete_timer" -> DeleteTimer(timers, e.id)
                    [] e.kind = "set_next_date" -> set_next_date(timers, e.id, e.arg)
                    [] OTHER -> timers,
     m_forced_fd |-> IF e.kind = "force_signal" THEN force_signal(forced_fd, e.arg)
                     ELSE forced_fd]

\* the history after the effect: a destroyed object is no longer one of those
\* registered during the whole call, a signal for a watched fd is owed a run
Note(h, e, watchers) ==
    LET gone == IF e.kind = "delete_watcher"
                THEN {w.m_fd : w \in {x \in watchers : x.id = e.id}} ELSE {}
    IN [h EXCEPT !.w_kept = IF e.kind = "delete_watcher" THEN @ \ {e.id} ELSE @,
                 !.t_kept = IF e.kind = "delete_timer" THEN @ \ {e.id} ELSE @,
                 !.owed = IF e.kind = "force_signal" /\ (\E w \in watchers : w.m_fd = e.arg)
                          THEN @ \cup {e.arg} ELSE @ \ gone,
                 !.due_w = @ \ gone]

\* the pollfd vector built from m_fd_watchers, in the order of the set
RECURSIVE EventsOf(_, _)
EventsOf(watchers, k) ==
    IF k \notin WatcherIds THEN <<>>
    ELSE (IF k \in Ids(watchers)
          THEN <<[fd |-> (CHOOSE w \in watchers : w.id = k).m_fd, revents |-> FALSE]>>
          ELSE <<>>) \o EventsOf(watchers, k + 1)

\* find_if(m_fd_watchers, w->fd() == fd): the first watcher of the fd, 0 for end()
find_if(watchers, fd) ==
    LET found == {w.id : w \in {x \in watchers : x.m_fd = fd}} IN
    IF found = {} THEN 0 ELSE CHOOSE i \in found : \A j \in found : i <= j

\* the iterator after it in the set of timers, 0 for end()
NextTimer(timers, it) ==
    LET later == {i \in Ids(timers) : i > it} IN
    IF later = {} THEN 0 ELSE CHOOSE i \in later : \A j \in later : i <= j

contains(s, x) == \E k \in 1..Len(s) : s[k] = x

EventsInit ==
    /\ buffer = [lines |-> <<>>, timestamp |-> 0] /\ modifs = <<>>
    /\ MatchIdle /\ WordIdle /\ RegionIdle /\ DisplayIdle
    /\ RegistryIdle /\ CacheIdle /\ RefIdle /\ LateIdle
    /\ hist = [op |-> "none", calls |-> 0,
               w_runs |-> [i \in WatcherIds |-> 0], t_runs |-> [i \in TimerIds |-> 0],
               w_kept |-> {}, t_kept |-> {}, t_due |-> {}, seen |-> DateMax,
               owed |-> {}, due_w |-> {}]
    /\ pc = "events"

EvUnchanged == UNCHANGED <<bufVars, matchVars, wordVars, regionVars, displayVars,
                           registryVars, cacheVars, refVars, selVars, dynVars, keyVars, pc>>

\* the code that runs between two calls of handle_next_events
MainCode ==
    /\ pc = "events" /\ frame.at = "out" /\ hist.calls < MaxCalls
    /\ \E e \in Effects(m_fd_watchers, m_timers, m_forced_fd, 0) :
        /\ e.kind \notin {"none", "force_signal"}
        /\ \E r \in {Effect(e, m_fd_watchers, m_timers, m_forced_fd)} :
            /\ m_fd_watchers' = r.m_fd_watchers
            /\ m_timers' = r.m_timers
        /\ hist' = [Note(hist, e, m_fd_watchers) EXCEPT !.op = "main"]
    /\ UNCHANGED <<m_forced_fd, clock, frame>>
    /\ EvUnchanged

\* a signal handler calls force_signal, between two steps of the main code
SignalHandler ==
    /\ pc = "events" /\ frame.at /= "crashed"
    /\ Len(m_forced_fd) < MaxForced
    /\ \E fd \in Fds :
        /\ m_forced_fd' = force_signal(m_forced_fd, fd)
        /\ hist' = Note(hist, [kind |-> "force_signal", id |-> 0, arg |-> fd], m_fd_watchers)
    /\ UNCHANGED <<m_fd_watchers, m_timers, clock, frame>>
    /\ EvUnchanged

\* handle_next_events up to the call of poll
BeginPoll ==
    /\ pc = "events" /\ frame.at = "out" /\ hist.calls < MaxCalls
    /\ frame' = [at |-> "poll", events |-> EventsOf(m_fd_watchers, 1),
                 forced |-> <<>>, i |-> 0, now |-> 0, it |-> 0]
    /\ hist' = [hist EXCEPT !.op = "begin",
                   !.w_runs = [i \in WatcherIds |-> 0],
                   !.t_runs = [i \in TimerIds |-> 0],
                   !.w_kept = Ids(m_fd_watchers),
                   !.t_kept = {}, !.t_due = {}, !.due_w = {}]
    /\ UNCHANGED <<m_fd_watchers, m_timers, m_forced_fd, clock>>
    /\ EvUnchanged

\* poll returns: on readiness, on its timeout or interrupted by a signal
PollReturns ==
    /\ pc = "events" /\ frame.at = "poll"
    /\ \E ready \in SUBSET Fds :
        frame' = [frame EXCEPT !.at = "gather",
                     !.events = [k \in 1..Len(frame.events) |->
                                    [fd |-> frame.events[k].fd,
                                     revents |-> frame.events[k].fd \in ready]]]
    /\ hist' = [hist EXCEPT !.op = "poll"]
    /\ UNCHANGED <<m_fd_watchers, m_timers, m_forced_fd, clock>>
    /\ EvUnchanged

\* std::swap(forced, m_forced_fd)
Gather ==
    /\ pc = "events" /\ frame.at = "gather"
    /\ frame' = [frame EXCEPT !.at = "watchers", !.forced = m_forced_fd]
    /\ m_forced_fd' = <<>>
    /\ hist' = [hist EXCEPT !.op = "gather", !.due_w = hist.owed, !.owed = {}]
    /\ UNCHANGED <<m_fd_watchers, m_timers, clock>>
    /\ EvUnchanged

\* a signal handler calls force_signal while the swap is under way: the
\* push_back works on a vector whose three pointers are half exchanged; it
\* lands in the buffer that becomes forced, or writes through a null pointer
GatherInterrupted ==
    /\ pc = "events" /\ frame.at = "gather"
    /\ Len(m_forced_fd) < MaxForced
    /\ \E fd \in Fds, outcome \in {"forced", "crash"} :
        LET watched == \E w \in m_fd_watchers : w.m_fd = fd
            owes == IF watched THEN {fd} ELSE {}
        IN IF outcome = "forced"
           THEN /\ frame' = [frame EXCEPT !.at = "watchers",
                                !.forced = force_signal(m_forced_fd, fd)]
                /\ m_forced_fd' = <<>>
                /\ hist' = [hist EXCEPT !.op = "gather",
                               !.due_w = hist.owed \cup owes, !.owed = {}]
           ELSE /\ frame' = [frame EXCEPT !.at = "crashed"]
                /\ m_forced_fd' = m_forced_fd
                /\ hist' = [hist EXCEPT !.op = "crash", !.owed = @ \cup owes]
    /\ UNCHANGED <<m_fd_watchers, m_timers, clock>>
    /\ EvUnchanged

\* one iteration of the loop over events
WatcherStep ==
    /\ pc = "events" /\ frame.at = "watchers"
    /\ frame.i < Len(frame.events)
    /\ LET event == frame.events[frame.i + 1]
           it == find_if(m_fd_watchers, event.fd)
       IN IF (event.revents \/ contains(frame.forced, event.fd)) /\ it /= 0
          THEN \E e \in Effects(m_fd_watchers, m_timers, m_forced_fd, -1) :
                  /\ \E r \in {Effect(e, m_fd_watchers, m_timers, m_forced_fd)} :
                      /\ m_fd_watchers' = r.m_fd_watchers
                      /\ m_timers' = r.m_timers
                      /\ m_forced_fd' = r.m_forced_fd
                  /\ hist' = [Note(hist, e, m_fd_watchers) EXCEPT
                                 !.op = "watcher", !.w_runs[it] = @ + 1]
          ELSE /\ hist' = [hist EXCEPT !.op = "skip"]
               /\ UNCHANGED <<m_fd_watchers, m_timers, m_forced_fd>>
    /\ frame' = [frame EXCEPT !.i = @ + 1]
    /\ UNCHANGED clock
    /\ EvUnchanged

\* the loop over events is over: now is read from the clock, which has
\* advanced since the last reading, and the loop over the timers begins
WatchersDone ==
    /\ pc = "events" /\ frame.at = "watchers"
    /\ frame.i = Len(frame.events)
    /\ \E now \in clock..MaxClock :
        /\ clock' = now
        /\ frame' = [frame EXCEPT !.at = "timers", !.now = now,
                        !.it = NextTimer(m_timers, 0)]
        /\ hist' = [hist EXCEPT !.op = "watchers_done",
                       !.t_kept = Ids(m_timers),
                       !.t_due = {t.id : t \in {x \in m_timers : x.m_date <= now}}]
    /\ UNCHANGED <<m_fd_watchers, m_timers, m_forced_fd>>
    /\ EvUnchanged

\* one iteration of the loop over the timers: Timer::run disarms the timer
\* and calls its callback. Incrementing the iterator of a timer the callback
\* destroyed is undefined: the loop goes on at any timer or ends
TimerStep ==
    /\ pc = "events" /\ frame.at = "timers"
    /\ frame.it /= 0
    /\ LET timer == CHOOSE t \in m_timers : t.id = frame.it IN
       IF timer.m_date <= frame.now
       THEN \E disarmed \in {set_next_date(m_timers, frame.it, DateMax)} :
            \E e \in Effects(m_fd_watchers, disarmed, m_forced_fd, frame.it) :
               /\ \E r \in {Effect(e, m_fd_watchers, disarmed, m_forced_fd)} :
                   /\ m_fd_watchers' = r.m_fd_watchers
                   /\ m_timers' = r.m_timers
                   /\ m_forced_fd' = r.m_forced_fd
               /\ hist' = [Note(hist, e, m_fd_watchers) EXCEPT
                              !.op = "timer", !.t_runs[frame.it] = @ + 1,
                              !.seen = (CHOOSE t \in disarmed : t.id = frame.it).m_date]
       ELSE /\ hist' = [hist EXCEPT !.op = "skip"]
            /\ UNCHANGED <<m_fd_watchers, m_timers, m_forced_fd>>
    /\ IF frame.it \in Ids(m_timers')
       THEN frame' = [frame EXCEPT !.it = NextTimer(m_timers', frame.it)]
       ELSE \E nxt \in Ids(m_timers') \cup {0} : frame' = [frame EXCEPT !.it = nxt]
    /\ UNCHANGED clock
    /\ EvUnchanged

\* handle_next_events returns
Finish ==
    /\ pc = "events" /\ frame.at = "timers"
    /\ frame.it = 0
    /\ frame' = NoFrame
    /\ hist' = [hist EXCEPT !.op = "finish", !.calls = @ + 1]
    /\ UNCHANGED <<m_fd_watchers, m_timers, m_forced_fd, clock>>
    /\ EvUnchanged

EventsNext ==
    \/ MainCode \/ SignalHandler
    \/ BeginPoll \/ PollReturns \/ Gather \/ GatherInterrupted
    \/ WatcherStep \/ WatchersDone \/ TimerStep \/ Finish

SpecEvents == EventsInit /\ [][EventsNext]_vars

Range(s) == {s[k] : k \in 1..Len(s)}

\* C38: in one call of handle_next_events every timer that is registered
\* during the whole loop over the timers and whose date is <= now when the
\* loop begins has its callback run exactly once, the callback sees the date
\* at the maximum, and a timer whose date is later is not run; this also when
\* callbacks create or destroy timers.
C38_DueTimersRunOnce ==
    pc = "events" =>
        /\ hist.op = "timer" => hist.seen = DateMax
        /\ \A t \in hist.t_kept :
            /\ hist.t_runs[t] <= 1
            /\ t \notin hist.t_due => hist.t_runs[t] = 0
        /\ hist.op = "finish" =>
               \A t \in hist.t_kept \cap hist.t_due : hist.t_runs[t] = 1

\* C39: a force_signal for an fd with a registered watcher is not lost (until
\* it is gathered it is held in m_forced_fd, and the call that gathers it runs
\* a watcher of the fd) and in one call no watcher is run twice.
C39_ForcedSignalServicedOnce ==
    pc = "events" =>
        /\ \A w \in hist.w_kept : hist.w_runs[w] <= 1
        /\ \A fd \in hist.owed : fd \in Range(m_forced_fd)
        /\ hist.op = "watchers_done" =>
               \A fd \in hist.due_w :
                   \E w \in m_fd_watchers : w.m_fd = fd /\ hist.w_runs[w.id] >= 1

(* ---------------------------------------------------------------------- *)
(* KeymapManager: a chain of managers, each with its own mappings          *)
(* ---------------------------------------------------------------------- *)
\* the managers of the chain and KeymapManager::m_parent ("none": no parent)
Managers == {"global", "buffer", "window"}
m_parent == [m \in Managers |-> CASE m = "window" -> "buffer"
                                  [] m = "buffer" -> "global"
                                  [] OTHER -> "none"]

\* the (key, mode) pairs and the key sequences a key is mapped to
KeyModes == {<<"a", "Normal">>, <<"a", "Insert">>}
Mappings == {<<"x">>, <<"y", "z">>}

\* KeymapManager::map_key
map_key(maps, m, km, mapping) ==
    [maps EXCEPT ![m] = [k \in DOMAIN @ \cup {km} |-> IF k = km THEN mapping ELSE @[k]]]

\* KeymapManager::unmap_key
unmap_key(maps, m, km) ==
    [maps EXCEPT ![m] = [k \in DOMAIN @ \ {km} |-> @[k]]]

\* KeymapManager::is_mapped
RECURSIVE is_mapped(_, _, _)
is_mapped(maps, m, km) ==
    \/ km \in DOMAIN maps[m]
    \/ (m_parent[m] /= "none" /\ is_mapped(maps, m_parent[m], km))

\* the mutation of get_mapping: the mapping of the farthest holder of the chain
RECURSIVE get_mapping_farthest(_, _, _)
get_mapping_farthest(maps, m, km) ==
    IF m_parent[m] /= "none" /\ is_mapped(maps, m_parent[m], km)
    THEN get_mapping_farthest(maps, m_parent[m], km)
    ELSE IF km \in DOMAIN maps[m] THEN maps[m][km] ELSE "assert"

\* KeymapManager::get_mapping; "assert" where kak_assert(m_parent) fails
RECURSIVE get_mapping(_, _, _)
get_mapping(maps, m, km) ==
    IF km \in DOMAIN maps[m] THEN maps[m][km]
    ELSE IF m_parent[m] = "none" THEN "assert"
    ELSE get_mapping(maps, m_parent[m], km)

NoMapping == [k \in {} |-> <<>>]

\* hist of the keymaps: the last call, its arguments and result, and the
\* mappings of every manager before it
KeymapInit ==
    /\ buffer = [lines |-> <<>>, timestamp |-> 0] /\ modifs = <<>>
    /\ MatchIdle /\ WordIdle /\ RegionIdle /\ DisplayIdle
    /\ RegistryIdle /\ CacheIdle /\ RefIdle /\ SelIdle /\ DynIdle /\ EvIdle
    /\ keymaps = [m \in Managers |-> NoMapping]
    /\ hist = [op |-> "none", m |-> "global", km |-> <<"a", "Normal">>,
               result |-> <<>>, before |-> keymaps]
    /\ pc = "keymap"

KeymapUnchanged == UNCHANGED <<bufVars, matchVars, wordVars, regionVars, displayVars,
                               registryVars, cacheVars, refVars, selVars, dynVars, evVars, pc>>

MapKey ==
    /\ pc = "keymap"
    /\ \E m \in Managers, km \in KeyModes, mapping \in Mappings :
        /\ keymaps' = map_key(keymaps, m, km, mapping)
        /\ hist' = [op |-> "map_key", m |-> m, km |-> km, result |-> mapping,
                    before |-> keymaps]
    /\ KeymapUnchanged

UnmapKey ==
    /\ pc = "keymap"
    /\ \E m \in Managers, km \in KeyModes :
        /\ keymaps' = unmap_key(keymaps, m, km)
        /\ hist' = [op |-> "unmap_key", m |-> m, km |-> km, result |-> <<>>,
                    before |-> keymaps]
    /\ KeymapUnchanged

IsMapped ==
    /\ pc = "keymap"
    /\ \E m \in Managers, km \in KeyModes :
        hist' = [op |-> "is_mapped", m |-> m, km |-> km,
                 result |-> is_mapped(keymaps, m, km), before |-> keymaps]
    /\ UNCHANGED keymaps
    /\ KeymapUnchanged

\* callers ask for the mapping of a key only where is_mapped holds
GetMapping ==
    /\ pc = "keymap"
    /\ \E m \in Managers, km \in KeyModes :
        /\ is_mapped(keymaps, m, km)
        /\ hist' = [op |-> "get_mapping", m |-> m, km |-> km,
                    result |-> get_mapping(keymaps, m, km), before |-> keymaps]
    /\ UNCHANGED keymaps
    /\ KeymapUnchanged

KeymapNext == MapKey \/ UnmapKey \/ IsMapped \/ GetMapping

SpecKeymap == KeymapInit /\ [][KeymapNext]_vars

\* the manager and its ancestors, and how far up the chain each of them is
Chain(m) ==
    CASE m = "window" -> {"window", "buffer", "global"}
      [] m = "buffer" -> {"buffer", "global"}
      [] OTHER -> {"global"}
Level(m) == CASE m = "window" -> 2 [] m = "buffer" -> 1 [] OTHER -> 0

\* the managers of the chain of m that hold a mapping of km
Holders(maps, m, km) == {h \in Chain(m) : km \in DOMAIN maps[h]}

\* the holder nearest to m
Nearest(maps, m, km) ==
    CHOOSE h \in Holders(maps, m, km) :
        \A g \in Holders(maps, m, km) : Level(g) <= Level(h)

\* what a lookup from m has to give: the mapping of the nearest holder
Visible(maps, m, km) == maps[Nearest(maps, m, km)][km]

\* C40: is_mapped is true exactly when the manager or an ancestor holds a
\* mapping of the key, and get_mapping returns the mapping of the nearest
\* holder; map_key changes the mappings of its own manager only and makes the
\* new mapping the visible one there, the parent's being kept; unmap_key
\* removes only the mapping of its own manager, after which the mapping of
\* the nearest ancestor that holds one is visible again.
C40_NearestMappingWins ==
    pc = "keymap" =>
        /\ hist.op = "is_mapped" =>
               hist.result = (Holders(keymaps, hist.m, hist.km) /= {})
        /\ hist.op = "get_mapping" =>
               hist.result = Visible(keymaps, hist.m, hist.km)
        /\ hist.op \in {"map_key", "unmap_key"} =>
               /\ \A m \in Managers \ {hist.m} : keymaps[m] = hist.before[m]
               /\ \A km \in KeyModes \ {hist.km} :
                      /\ (km \in DOMAIN keymaps[hist.m]) = (km \in DOMAIN hist.before[hist.m])
                      /\ km \in DOMAIN keymaps[hist.m] => keymaps[hist.m][km] = hist.before[hist.m][km]
        /\ hist.op = "map_key" =>
               /\ is_mapped(keymaps, hist.m, hist.km)
               /\ get_mapping(keymaps, hist.m, hist.km) = hist.result
        /\ hist.op = "unmap_key" =>
               /\ hist.km \notin DOMAIN keymaps[hist.m]
               /\ is_mapped(keymaps, hist.m, hist.km)
                      = (m_parent[hist.m] /= "none"
                         /\ Holders(hist.before, m_parent[hist.m], hist.km) /= {})
               /\ is_mapped(keymaps, hist.m, hist.km) =>
                      get_mapping(keymaps, hist.m, hist.km)
                          = Visible(hist.before, m_parent[hist.m], hist.km)

\* the window asks for a key that it does not map itself, that its buffer
\* maps and that the global manager maps differently: the buffer's is returned
C40_Witness ==
    /\ pc = "keymap"
    /\ hist.op = "get_mapping" /\ hist.m = "window"
    /\ hist.km \notin DOMAIN keymaps["window"]
    /\ hist.km \in DOMAIN keymaps["buffer"]
    /\ hist.km \in DOMAIN keymaps["global"]
    /\ keymaps["buffer"][hist.km] /= keymaps["global"][hist.km]
    /\ hist.result = keymaps["buffer"][hist.km]

====
